---------------------------- MODULE Spec2Model ----------------------------
(***************************************************************************)
(* A model of kamrecsys' probabilistic matrix factorization recommender    *)
(* (kamrecsys/score_predictor/matrix_factorization.py, class PMF), of the  *)
(* event container it is fitted on (kamrecsys/data/event.py) and of the    *)
(* prediction entry point (kamrecsys/recommenders.py).                     *)
(*                                                                         *)
(* Numbers.  The program computes in IEEE doubles.  The model computes in  *)
(* exact rationals <<n, d>> (d > 0, lowest terms) plus NaN == <<0, 0>>:    *)
(* rounding is not modelled, the arithmetic identities the program relies  *)
(* on (x + 0.0 = x, x * 0.0 = 0.0 for finite x) are.                       *)
(*                                                                         *)
(* Memory.  numpy arrays are modelled as buffers in a heap (buffer id ->   *)
(* sequence of numbers) and as views (buffer id, offset, shape) into them, *)
(* so that "a view, not a copy" is a property of the state.                *)
(***************************************************************************)
EXTENDS Integers, Sequences, FiniteSets, TLC

(***************************************************************************)
(* Bounds of the model                                                     *)
(***************************************************************************)
\* longest raw event array handed to set_events
MaxEvents == 3
\* largest number of latent factors handed to the constructor
MaxK == 2
\* longest batch handed to predict
MaxBatch == 2

\* external ids that may occur in raw events (users, items)
ExtUsers == {5, 7}
ExtItems == {2, 9}
\* external ids that never occur in raw events
UnknownUsers == {6}
UnknownItems == {4}
\* rating scores that may occur in raw events, as floats
Scores == {<<1, 1>>, <<4, 1>>}
\* integer seeds handed to fit
Seeds == {0, 1}

(***************************************************************************)
(* Numbers: exact rationals and NaN                                        *)
(***************************************************************************)
NaN == <<0, 0>>

\* np.inf: only stored (the losses of an unfitted model), never computed with
PosInf == <<1, 0>>

IsNaN(a) == a[2] = 0

Abs(n) == IF n < 0 THEN -n ELSE n

RECURSIVE Gcd(_, _)
Gcd(a, b) == IF b = 0 THEN a ELSE Gcd(b, a % b)

\* the rational n/d in lowest terms; 0/0 is NaN
Rat(n, d) ==
    IF d = 0 THEN NaN
    ELSE LET g == Gcd(Abs(n), Abs(d))
             s == IF d < 0 THEN -1 ELSE 1
         IN  <<(s * n) \div g, (s * d) \div g>>

R(n) == <<n, 1>>

Zero == R(0)

\* sums and products cancel common factors before they multiply, to keep the
\* intermediate integers small
RAdd(a, b) ==
    IF IsNaN(a) \/ IsNaN(b) THEN NaN
    ELSE LET g == Gcd(a[2], b[2])
         IN  Rat(a[1] * (b[2] \div g) + b[1] * (a[2] \div g),
                 (a[2] \div g) * b[2])

RNeg(a) == IF IsNaN(a) THEN NaN ELSE <<-a[1], a[2]>>

RSub(a, b) == RAdd(a, RNeg(b))

\* a <= b on floats: False when either side is nan
RLe(a, b) == a[2] # 0 /\ b[2] # 0 /\ RSub(a, b)[1] <= 0

RMul(a, b) ==
    IF IsNaN(a) \/ IsNaN(b) THEN NaN
    ELSE LET g == Gcd(Abs(a[1]), b[2])
             f == Gcd(Abs(b[1]), a[2])
         IN  Rat((a[1] \div g) * (b[1] \div f), (a[2] \div f) * (b[2] \div g))

\* numpy's float division by an integer count: 0.0 / 0 is nan (a warning,
\* no exception).  The only zero divisor in the program divides an empty sum.
NpDivInt(a, n) ==
    IF IsNaN(a) THEN NaN ELSE Rat(a[1], a[2] * n)

RECURSIVE RSum(_)
RSum(s) == IF s = <<>> THEN Zero ELSE RAdd(s[1], RSum(Tail(s)))

\* np.sum of integers
RECURSIVE Sum(_)
Sum(s) == IF s = <<>> THEN 0 ELSE s[1] + Sum(Tail(s))

RECURSIVE Prod(_)
Prod(s) == IF s = <<>> THEN 1 ELSE s[1] * Prod(Tail(s))

Max(S) == CHOOSE a \in S : \A b \in S : b <= a

Min(S) == CHOOSE a \in S : \A b \in S : a <= b

\* the elements of a finite set of integers in increasing order
RECURSIVE SortedSeq(_)
SortedSeq(S) ==
    IF S = {} THEN <<>>
    ELSE LET m == CHOOSE a \in S : \A b \in S : a <= b
         IN  <<m>> \o SortedSeq(S \ {m})


(***************************************************************************)
(* numpy: structured dtypes, buffers and views                             *)
(***************************************************************************)
\* Python's None, for a field that holds a number or an array
None == [kind |-> "none"]

\* The shape numpy gives a field declared (name, float, shape).  A tuple is
\* taken as it is.  An integer n declares (n,), except that the integer 1
\* declares a scalar field: numpy reads (type, 1) as a synonym of type.
\* matrix_factorization.py declares mu with the tuple (1,), bu and bi with
\* the integers n_users and n_items, p and q with tuples.
FieldShape(decl) ==
    IF decl.tuple THEN decl.dims
    ELSE IF decl.dims = <<1>> THEN <<>> ELSE decl.dims

IntShape(n) == [tuple |-> FALSE, dims |-> <<n>>]

TupleShape(dims) == [tuple |-> TRUE, dims |-> dims]

\* np.dtype(list of fields): packed fields in declaration order, each at the
\* offset where the previous one ends (offsets and sizes in float64 items)
RECURSIVE DtypeFrom(_, _)
DtypeFrom(decls, off) ==
    IF decls = <<>> THEN <<>>
    ELSE LET sh == FieldShape(decls[1].shape)
         IN  <<[name |-> decls[1].name, shape |-> sh, offset |-> off,
                size |-> Prod(sh)]>>
             \o DtypeFrom(Tail(decls), off + Prod(sh))

Dtype(decls) == DtypeFrom(decls, 0)

ItemSize(dt) == IF dt = <<>> THEN 0 ELSE dt[Len(dt)].offset + dt[Len(dt)].size

Field(dt, name) == dt[CHOOSE j \in 1..Len(dt) : dt[j].name = name]

\* NewId handing out the memory of the first buffer again
NewIdFirst(h) == 1

\* the smallest buffer id the heap does not use
NewId(h) == CHOOSE b \in 1..(Cardinality(DOMAIN h) + 1) : b \notin DOMAIN h

\* np.zeros(n): a fresh buffer of n zeros
Alloc(h, b, vals) == [c \in DOMAIN h \cup {b} |-> IF c = b THEN vals ELSE h[c]]

Zeros(n) == [j \in 1..n |-> Zero]

\* coef.view(dt)[name][0] for a 1-d float buffer coef whose length is the
\* dtype's item size: field name of the single record.  An array field gives
\* an array sharing coef's memory; a scalar field gives a numpy scalar, which
\* is a copy of the value and immutable.
ViewField(h, b, dt, name) ==
    LET f == Field(dt, name)
    IN  IF f.shape = <<>>
        THEN [kind |-> "scalar", val |-> h[b][f.offset + 1]]
        ELSE [kind |-> "array", buf |-> b, off |-> f.offset, shape |-> f.shape]

\* the position in its buffer (0-based) of element idx of array a, row-major;
\* idx is a tuple of 0-based indices, one per dimension
FlatIndex(a, idx) ==
    IF Len(a.shape) = 1 THEN a.off + idx[1]
    ELSE a.off + idx[1] * a.shape[2] + idx[2]

\* a[idx]
Get(h, a, idx) == h[a.buf][FlatIndex(a, idx) + 1]

\* a[idx] = v
Put(h, a, idx, v) ==
    [h EXCEPT ![a.buf] = [@ EXCEPT ![FlatIndex(a, idx) + 1] = v]]

\* the elements of array a in row-major order
Elems(h, a) == [j \in 1..Prod(a.shape) |-> h[a.buf][a.off + j]]

\* the buffers the arrays in the set refs do not use are garbage
Collect(h, refs) ==
    [b \in {r.buf : r \in {q \in refs : q.kind = "array"}} \cap DOMAIN h |-> h[b]]

\* seq[i] for a Python/numpy index i into a sequence of length n: a negative
\* i counts from the end; i outside [-n, n) raises IndexError
InRange(i, n) == -n <= i /\ i < n

At(seq, i) == IF i < 0 THEN seq[Len(seq) + i + 1] ELSE seq[i + 1]

\* integer arrays (events): a vector (ndim 1) is a tuple of ids, an array
\* (ndim 2) a sequence of rows
Vec(v) == [ndim |-> 1, shape |-> <<Len(v)>>, rows |-> <<v>>]

Arr(rows, ncols) == [ndim |-> 2, shape |-> <<Len(rows), ncols>>, rows |-> rows]

Column(rows, e) == [j \in 1..Len(rows) |-> rows[j][e]]

Range(seq) == {seq[j] : j \in 1..Len(seq)}

(***************************************************************************)
(* kamrecsys.data: BaseData, EventData, EventWithScoreData                 *)
(***************************************************************************)
\* BaseData._gen_id(event): the distinct external ids of the given columns,
\* numbered densely from 0 in increasing order; returns (n, eid, iid)
GenId(ids) ==
    LET eid == SortedSeq(ids)
    IN  [n   |-> Len(eid),
         eid |-> eid,
         iid |-> [x \in ids |-> CHOOSE j \in 0..(Len(eid) - 1) : eid[j + 1] = x]]

\* EventData.__init__(n_otypes=2, event_otypes): no events yet
NewEventData(event_otypes) ==
    [n_otypes      |-> 2,
     n_objects     |-> <<0, 0>>,
     eid           |-> <<<<>>, <<>>>>,
     iid           |-> <<<<>>, <<>>>>,
     s_event       |-> Len(event_otypes),
     event_otypes  |-> event_otypes,
     n_events      |-> 0,
     event         |-> None,
     event_feature |-> None,
     score         |-> None]

\* dict.get(key, default)
DictGet(d, key, default) == IF key \in DOMAIN d THEN d[key] ELSE default

\* ToEidEvent looking column e up in the table of object type e
ToEidEventByColumn(self, data) ==
    LET conv(row) == [e \in 1..self.s_event |-> At(self.eid[e], row[e])]
    IN  [err |-> "none",
         val |-> [data EXCEPT !.rows =
                    [j \in 1..Len(data.rows) |-> conv(data.rows[j])]]]

\* EventUtilMixin.to_eid_event(data): internal ids to external ids.
\* self is any object with s_event, event_otypes, eid.
ToEidEvent(self, data) ==
    LET table(e) == self.eid[self.event_otypes[e] + 1]
        ok(row)  == \A e \in 1..self.s_event : InRange(row[e], Len(table(e)))
        conv(row) == [e \in 1..self.s_event |-> At(table(e), row[e])]
    IN  IF data.ndim = 1 /\ data.shape[1] = self.s_event
        THEN IF ok(data.rows[1])
             THEN [err |-> "none", val |-> Vec(conv(data.rows[1]))]
             ELSE [err |-> "IndexError", val |-> None]
        ELSE IF data.ndim = 2 /\ data.shape[2] = self.s_event
        THEN IF \A j \in 1..Len(data.rows) : ok(data.rows[j])
             THEN [err |-> "none",
                   val |-> Arr([j \in 1..Len(data.rows) |-> conv(data.rows[j])],
                               data.shape[2])]
             ELSE [err |-> "IndexError", val |-> None]
        ELSE [err |-> "TypeError", val |-> None]

\* DefaultMissing with the largest internal id in place of the number of
\* objects
DefaultMissingMaxId(self) ==
    [e \in 1..self.s_event |-> self.n_objects[self.event_otypes[e] + 1] - 1]

\* missing_values = self.n_objects[self.event_otypes]
DefaultMissing(self) ==
    [e \in 1..self.s_event |-> self.n_objects[self.event_otypes[e] + 1]]

\* EventUtilMixin.to_iid_event(ev, missing_values=None): external ids to
\* internal ids, an unknown external id in column e to missing_values[e]
ToIidEventWith(self, ev, missing_values) ==
    LET conv(row) ==
            [e \in 1..self.s_event |->
                DictGet(self.iid[self.event_otypes[e] + 1], row[e],
                        missing_values[e])]
    IN  IF ev.ndim = 1 /\ ev.shape[1] = self.s_event
        THEN [err |-> "none", val |-> Vec(conv(ev.rows[1]))]
        ELSE IF ev.ndim = 2 /\ ev.shape[2] = self.s_event
        THEN [err |-> "none",
              val |-> Arr([j \in 1..Len(ev.rows) |-> conv(ev.rows[j])],
                          ev.shape[2])]
        ELSE [err |-> "TypeError", val |-> None]

ToIidEvent(self, ev) == ToIidEventWith(self, ev, DefaultMissing(self))

\* EventData.set_events(event, event_feature=None): event is a 2-d array of
\* external ids with s_event columns
SetEvents(self, event, event_feature) ==
    LET gen(otype) ==
            GenId(UNION {Range(Column(event.rows, e)) :
                         e \in {c \in 1..self.s_event :
                                self.event_otypes[c] = otype}})
        iid == [t \in 1..self.n_otypes |-> gen(t - 1).iid]
    IN  [self EXCEPT
            !.n_objects = [t \in 1..self.n_otypes |-> gen(t - 1).n],
            !.eid = [t \in 1..self.n_otypes |-> gen(t - 1).eid],
            !.iid = iid,
            !.event =
                Arr([j \in 1..Len(event.rows) |->
                        [e \in 1..self.s_event |->
                            iid[self.event_otypes[e] + 1][event.rows[j][e]]]],
                    event.shape[2]),
            !.n_events = event.shape[1],
            !.event_feature = event_feature]

\* a[cond] for a boolean array cond as long as the sequence a: the elements
\* at the positions where cond is True, in their order
RECURSIVE BoolIndex(_, _)
BoolIndex(a, cond) ==
    IF a = <<>> THEN <<>>
    ELSE (IF Head(cond) THEN <<Head(a)>> ELSE <<>>)
         \o BoolIndex(Tail(a), Tail(cond))

\* event features: one row per event
Features(rows) == [kind |-> "features", rows |-> rows]

\* FilterEvent leaving event_feature as it is
FilterEventFeatureKept(self, filter_cond) ==
    IF self.event = None THEN self
    ELSE LET rows == BoolIndex(self.event.rows, filter_cond)
         IN  [self EXCEPT !.event = Arr(rows, self.event.shape[2])]

\* EventData.filter_event(filter_cond)
FilterEvent(self, filter_cond) ==
    IF self.event = None THEN self
    ELSE LET rows == BoolIndex(self.event.rows, filter_cond)
         IN  [self EXCEPT
                !.event = Arr(rows, self.event.shape[2]),
                !.event_feature =
                    IF self.event_feature = None THEN None
                    ELSE Features(BoolIndex(self.event_feature.rows,
                                            filter_cond))]

\* a[index] for an array index of integers: the elements at those positions,
\* in the order of index
TakeIndex(a, index) == [j \in 1..Len(index) |-> a[index[j] + 1]]

\* EventData.filter_event(filter_cond) called with an array of row numbers,
\* each less than the number of rows
FilterEventAt(self, index) ==
    IF self.event = None THEN self
    ELSE [self EXCEPT
            !.event = Arr(TakeIndex(self.event.rows, index),
                          self.event.shape[2]),
            !.event_feature =
                IF self.event_feature = None THEN None
                ELSE Features(TakeIndex(self.event_feature.rows, index))]

\* EventWithScoreData.set_events(event, score): the events as EventData
\* holds them, and one score per event
SetEventsWithScore(self, event, score) ==
    [SetEvents(self, event, None) EXCEPT !.score = [kind |-> "vector", vals |-> score]]

(***************************************************************************)
(* kamrecsys.recommenders: BaseRecommender, BaseEventRecommender           *)
(***************************************************************************)
Float(v) == [kind |-> "float", val |-> v]

IntVal(n) == [kind |-> "int", val |-> n]

Deleted == [kind |-> "deleted"]

\* sklearn's check_random_state: None is numpy's process-wide generator, an
\* integer seeds a generator of the caller's own
CheckRandomState(random_state) ==
    IF random_state = None THEN [kind |-> "global"]
    ELSE [kind |-> "RandomState", seed |-> random_state.val]

\* BaseFit preferring the object's random_state to fit's argument
BaseFitObjectFirst(self, random_state) ==
    LET rs == IF self.random_state # None THEN self.random_state
              ELSE random_state
    IN  [self EXCEPT !._rng = CheckRandomState(rs)]

\* BaseRecommender.fit(random_state)
BaseFit(self, random_state) ==
    LET rs == IF random_state = None THEN self.random_state ELSE random_state
    IN  [self EXCEPT !._rng = CheckRandomState(rs)]

\* BaseRecommender._set_object_info(data)
SetObjectInfo(self, data) ==
    [self EXCEPT !.n_otypes = data.n_otypes, !.n_objects = data.n_objects,
                 !.eid = data.eid, !.iid = data.iid]

\* BaseEventRecommender._set_event_info(data)
SetEventInfo(self, data) ==
    [self EXCEPT !.event_otypes = data.event_otypes, !.s_event = data.s_event]

\* BaseEventItemFinder.__init__(random_state)
NewItemFinder(random_state) ==
    [random_state |-> random_state, _rng |-> None,
     n_otypes |-> 0, n_objects |-> <<>>, eid |-> <<>>, iid |-> <<>>,
     event_otypes |-> <<>>, s_event |-> 0]

SparseTypes == {"csr", "csc", "lil", "array"}

\* sparse.coo_matrix((scores, (users, items)), shape=shape) converted by
\* tocsr, tocsc, tolil or toarray: every conversion adds up the scores given
\* for one position (tolil converts by way of tocsr)
CooConverted(scores, users, items, shape, sparse_type) ==
    [kind  |-> sparse_type,
     shape |-> shape,
     vals  |-> [pos \in (0..(shape[1] - 1)) \X (0..(shape[2] - 1)) |->
                  Sum([j \in 1..Len(users) |->
                         IF <<users[j], items[j]>> = pos THEN scores[j]
                         ELSE 0])]]

\* BaseEventItemFinder._get_event_array(data, event_index, sparse_type), data
\* an EventData that holds events.  Returns the object, the exception raised
\* ("none": returned) and the returned (event, n_objects).
GetEventArray(self, data, event_index, sparse_type) ==
    IF sparse_type \notin SparseTypes
    THEN [self |-> self, err |-> "TypeError", val |-> None]
    ELSE LET s1 == SetEventInfo(SetObjectInfo(self, data), data)
             n_objects == [c \in 1..Len(event_index) |->
                            s1.n_objects[s1.event_otypes[event_index[c] + 1] + 1]]
             users == Column(data.event.rows, event_index[1] + 1)
             items == Column(data.event.rows, event_index[2] + 1)
             scores == [j \in 1..Len(users) |-> 1]
         IN  [self |-> s1, err |-> "none",
              val |-> [event |-> CooConverted(scores, users, items, n_objects,
                                              sparse_type),
                       n_objects |-> n_objects]]

(***************************************************************************)
(* kamrecsys.score_predictor.matrix_factorization: PMF                     *)
(***************************************************************************)
\* PMF.__init__(C, k, tol, maxiter, random_state)
NewPMF(C, k, tol, maxiter, random_state) ==
    [C |-> C, k |-> k, tol |-> tol, maxiter |-> maxiter,
     random_state |-> random_state, _rng |-> None,
     n_otypes |-> 0, n_objects |-> <<>>, eid |-> <<>>, iid |-> <<>>,
     event_otypes |-> <<>>, s_event |-> 0,
     n_events |-> 0, event |-> None, score |-> None,
     mu_ |-> None, bu_ |-> None, bi_ |-> None, p_ |-> None, q_ |-> None,
     fit_results_ |-> [initial_loss |-> Float(PosInf),
                       final_loss |-> Float(PosInf)],
     _coef |-> None, _dt |-> None, _reg |-> None]

\* ParamDtype with the item factors declared before the user factors
ParamDtypeQBeforeP(n_users, n_items, k) ==
    Dtype(<<[name |-> "mu", shape |-> TupleShape(<<1>>)],
            [name |-> "bu", shape |-> IntShape(n_users)],
            [name |-> "bi", shape |-> IntShape(n_items)],
            [name |-> "q", shape |-> TupleShape(<<n_items, k>>)],
            [name |-> "p", shape |-> TupleShape(<<n_users, k>>)]>>)

\* the dtype _init_coef declares for the parameters
ParamDtype(n_users, n_items, k) ==
    Dtype(<<[name |-> "mu", shape |-> TupleShape(<<1>>)],
            [name |-> "bu", shape |-> IntShape(n_users)],
            [name |-> "bi", shape |-> IntShape(n_items)],
            [name |-> "p", shape |-> TupleShape(<<n_users, k>>)],
            [name |-> "q", shape |-> TupleShape(<<n_items, k>>)]>>)

\* the length of the buffer _init_coef allocates
CoefLen(n_users, n_items, k) == 1 + n_users + n_items + n_users * k + n_items * k

\* the positions (1-based) of the events whose column c holds internal id i:
\* np.nonzero(ev[:, c] == i)[0]
RECURSIVE EventsOf(_, _, _)
EventsOf(rows, c, i) ==
    IF rows = <<>> THEN <<>>
    ELSE LET rest == EventsOf(SubSeq(rows, 1, Len(rows) - 1), c, i)
         IN  IF rows[Len(rows)][c] = i THEN Append(rest, Len(rows)) ELSE rest

\* a sequence of element writes a[idx] = v, applied in order
RECURSIVE PutAll(_, _, _)
PutAll(h, a, writes) ==
    IF writes = <<>> THEN h
    ELSE PutAll(Put(h, a, writes[1].idx, writes[1].v), a, Tail(writes))

\* the largest r >= 0 with r * r <= n
RECURSIVE IsqrtFrom(_, _)
IsqrtFrom(n, r) == IF (r + 1) * (r + 1) > n THEN r ELSE IsqrtFrom(n, r + 1)

\* np.sqrt of a non-negative number, rounded down to a multiple of 1/2
Sqrt(a) ==
    IF IsNaN(a) THEN NaN ELSE Rat(IsqrtFrom((4 * a[1]) \div a[2], 0), 2)

\* the pos-th standard normal deviate of the generator stream seeded by seed
StdNormal(seed, pos) == R(((seed * 3 + pos * 2) % 5) - 2)

\* rng.normal(0.0, sd, (rows, cols)): the deviates from position pos of the
\* stream on, scaled by sd, in row-major order
Normal(seed, pos, sd, rows, cols) ==
    [j \in 1..(rows * cols) |-> RMul(sd, StdNormal(seed, pos + j - 1))]

\* _init_coef, lines 152-171: the dtype, the buffer and the views.
\* A step of _init_coef maps the object and the heap to the object and the
\* heap: st is [self, heap].
InitViews(self, h, n_users, n_items, k) ==
    LET dt == ParamDtype(n_users, n_items, k)
        b  == NewId(h)
        h0 == Alloc(h, b, Zeros(CoefLen(n_users, n_items, k)))
    IN  [self |-> [self EXCEPT
                     !._dt = [kind |-> "dtype", fields |-> dt],
                     !._coef = [kind |-> "array", buf |-> b, off |-> 0,
                                shape |-> <<CoefLen(n_users, n_items, k)>>],
                     !.mu_ = ViewField(h0, b, dt, "mu"),
                     !.bu_ = ViewField(h0, b, dt, "bu"),
                     !.bi_ = ViewField(h0, b, dt, "bi"),
                     !.p_ = ViewField(h0, b, dt, "p"),
                     !.q_ = ViewField(h0, b, dt, "q")],
         heap |-> h0]

\* line 174: self.mu_[0] = np.sum(sc) / n_events
InitMu(st, sc) ==
    [st EXCEPT !.heap =
        Put(st.heap, st.self.mu_, <<0>>,
            NpDivInt(RSum([j \in 1..Len(sc) |-> sc[j]]), Len(sc)))]

\* the internal ids below n that occur in column c of the events
Occurring(ev, c, n) == {i \in 0..(n - 1) : EventsOf(ev, c, i) # <<>>}

\* lines 175-178: self.bu_[i] = np.sum(sc[j] - self.mu_[0]) / len(j) for
\* every user i with events j
InitBu(st, ev, sc, n_users) ==
    LET mu == Get(st.heap, st.self.mu_, <<0>>)
        us == SortedSeq(Occurring(ev, 1, n_users))
        val(i) == LET js == EventsOf(ev, 1, i)
                  IN  NpDivInt(RSum([n \in 1..Len(js) |-> RSub(sc[js[n]], mu)]),
                               Len(js))
    IN  [st EXCEPT !.heap =
            PutAll(st.heap, st.self.bu_,
                   [n \in 1..Len(us) |-> [idx |-> <<us[n]>>, v |-> val(us[n])]])]

\* InitBi leaving the users' biases out of the residuals
InitBiNoUserBias(st, ev, sc, n_items) ==
    LET mu == Get(st.heap, st.self.mu_, <<0>>)
        is == SortedSeq(Occurring(ev, 2, n_items))
        val(i) == LET js == EventsOf(ev, 2, i)
                  IN  NpDivInt(RSum([n \in 1..Len(js) |-> RSub(sc[js[n]], mu)]),
                               Len(js))
    IN  [st EXCEPT !.heap =
            PutAll(st.heap, st.self.bi_,
                   [n \in 1..Len(is) |-> [idx |-> <<is[n]>>, v |-> val(is[n])]])]

\* lines 179-184: self.bi_[i] = np.sum(sc[j] - (self.mu_[0] +
\* self.bu_[ev[j, 0]])) / len(j) for every item i with events j
InitBi(st, ev, sc, n_items) ==
    LET mu == Get(st.heap, st.self.mu_, <<0>>)
        is == SortedSeq(Occurring(ev, 2, n_items))
        val(i) == LET js == EventsOf(ev, 2, i)
                  IN  NpDivInt(
                        RSum([n \in 1..Len(js) |->
                                RSub(sc[js[n]],
                                     RAdd(mu, Get(st.heap, st.self.bu_,
                                                  <<ev[js[n]][1]>>)))]),
                        Len(js))
    IN  [st EXCEPT !.heap =
            PutAll(st.heap, st.self.bi_,
                   [n \in 1..Len(is) |-> [idx |-> <<is[n]>>, v |-> val(is[n])]])]

\* lines 187-191: the sum of the squared residuals of the bias terms
ResidualSum(st, ev, sc) ==
    RSum([j \in 1..Len(ev) |->
            LET r == RSub(sc[j],
                          RAdd(RAdd(Get(st.heap, st.self.mu_, <<0>>),
                                    Get(st.heap, st.self.bu_, <<ev[j][1]>>)),
                               Get(st.heap, st.self.bi_, <<ev[j][2]>>)))
            IN  RMul(r, r)])

\* a[0:rows, :] = vals for a 2-d array a of cols columns
PutRows(h, a, rows, cols, vals) ==
    PutAll(h, a, [n \in 1..(rows * cols) |->
                    [idx |-> <<(n - 1) \div cols, (n - 1) % cols>>,
                     v |-> vals[n]]])

\* InitFactors scaling the regularization by the number of parameters
\* without the global bias
InitFactorsUnscaledByMu(st, ev, sc, n_users, n_items, k, seed) ==
    LET sd == Sqrt(NpDivInt(ResidualSum(st, ev, sc), Len(ev)))
        hp == PutRows(st.heap, st.self.p_, n_users, k,
                      Normal(seed, 0, sd, n_users, k))
    IN  [self |-> [st.self EXCEPT !._reg =
                      Float(RMul(st.self.C,
                                 Rat(1, (k + 1) * (n_users + n_items))))],
         heap |-> PutRows(hp, st.self.q_, n_items, k,
                          Normal(seed, n_users * k, sd, n_items, k))]

\* lines 192-199: the factors, drawn from the generator stream seed with
\* the residuals' standard deviation, p first and q after it, and the scale
\* of the regularization term
InitFactors(st, ev, sc, n_users, n_items, k, seed) ==
    LET sd == Sqrt(NpDivInt(ResidualSum(st, ev, sc), Len(ev)))
        hp == PutRows(st.heap, st.self.p_, n_users, k,
                      Normal(seed, 0, sd, n_users, k))
    IN  [self |-> [st.self EXCEPT !._reg =
                      Float(RMul(st.self.C,
                                 Rat(1, 1 + (k + 1) * (n_users + n_items))))],
         heap |-> PutRows(hp, st.self.q_, n_items, k,
                          Normal(seed, n_users * k, sd, n_items, k))]

Raised(st, err) == [self |-> st.self, heap |-> st.heap, err |-> err]

\* PMF._init_coef(ev, sc, n_objects), drawing from generator stream seed.
\* Returns the object, the heap and the exception raised ("none": returned).
\* A statement that raises leaves the effects of the statements before it:
\* an element assignment to a numpy scalar raises TypeError, and
\* var /= n_events, a Python float by a Python int, ZeroDivisionError.
InitCoef(self, h, ev, sc, n_objects, seed) ==
    LET n_users == n_objects[1]
        n_items == n_objects[2]
        st0 == InitViews(self, h, n_users, n_items, self.k)
        st1 == InitMu(st0, sc)
        st2 == InitBu(st1, ev, sc, n_users)
        st3 == InitBi(st2, ev, sc, n_items)
    IN  IF Len(st0.heap[st0.self._coef.buf]) # ItemSize(st0.self._dt.fields)
        THEN Raised([st0 EXCEPT !.self = [self EXCEPT !._dt = st0.self._dt,
                                                      !._coef = st0.self._coef]],
                    "ValueError")
        ELSE IF Occurring(ev, 1, n_users) # {} /\ st0.self.bu_.kind = "scalar"
        THEN Raised(st1, "TypeError")
        ELSE IF Occurring(ev, 2, n_items) # {} /\ st0.self.bi_.kind = "scalar"
        THEN Raised(st2, "TypeError")
        ELSE IF Len(ev) = 0
        THEN Raised(st3, "ZeroDivisionError")
        ELSE Raised(InitFactors(st3, ev, sc, n_users, n_items, self.k, seed),
                    "none")

\* the arrays mu, bu, bi, p, q that loss, grad_loss and fit read from a
\* buffer: coef.view(self._dt)[name][0]
Params(self, h, b) ==
    [name \in {"mu", "bu", "bi", "p", "q"} |->
        ViewField(h, b, self._dt.fields, name)]

\* row u of a 2-d array
Row(h, a, u) == [f \in 1..a.shape[2] |-> Get(h, a, <<u, f - 1>>)]

Dot(x, y) == RSum([f \in 1..Len(x) |-> RMul(x[f], y[f])])

SumSq(x) == Dot(x, x)

\* Score without the item's bias
ScoreNoItemBias(h, mu, bu, bi, p, q, u, i) ==
    RAdd(RAdd(Get(h, mu, <<0>>), Get(h, bu, <<u>>)),
         Dot(Row(h, p, u), Row(h, q, i)))

\* mu[0] + bu[u] + bi[i] + np.sum(p[u, :] * q[i, :])
Score(h, mu, bu, bi, p, q, u, i) ==
    RAdd(RAdd(RAdd(Get(h, mu, <<0>>), Get(h, bu, <<u>>)), Get(h, bi, <<i>>)),
         Dot(Row(h, p, u), Row(h, q, i)))

\* Loss with the global bias in the regularization term
LossMuPenalized(self, h, b, ev, sc, n_objects) ==
    LET n_events == Len(ev)
        v   == Params(self, h, b)
        esc(j) == Score(h, v["mu"], v["bu"], v["bi"], v["p"], v["q"],
                        ev[j][1], ev[j][2])
        loss == RSum([j \in 1..n_events |->
                        LET r == RSub(sc[j], esc(j)) IN RMul(r, r)])
        reg == SumSq(h[b])
    IN  RAdd(NpDivInt(loss, n_events), RMul(self._reg.val, reg))

\* PMF.loss(coef, ev, sc, n_objects), coef the buffer b
Loss(self, h, b, ev, sc, n_objects) ==
    LET n_events == Len(ev)
        v   == Params(self, h, b)
        esc(j) == Score(h, v["mu"], v["bu"], v["bi"], v["p"], v["q"],
                        ev[j][1], ev[j][2])
        loss == RSum([j \in 1..n_events |->
                        LET r == RSub(sc[j], esc(j)) IN RMul(r, r)])
        reg == RAdd(RAdd(SumSq(Elems(h, v["bu"])), SumSq(Elems(h, v["bi"]))),
                    RAdd(SumSq(Elems(h, v["p"])), SumSq(Elems(h, v["q"]))))
    IN  RAdd(NpDivInt(loss, n_events), RMul(self._reg.val, reg))

\* grad_loss, lines 283-284: neg_res = -(sc - (mu[0] + bu[...] + ...))
NegRes(self, h, b, ev, sc) ==
    LET v == Params(self, h, b)
    IN  [j \in 1..Len(ev) |->
            RNeg(RSub(sc[j], Score(h, v["mu"], v["bu"], v["bi"], v["p"], v["q"],
                                   ev[j][1], ev[j][2])))]

\* Bincount keeping for element u the weight of the last position j with
\* idx[j] = u (assignment through an index array, not accumulation)
BincountLast(idx, weights, minlength) ==
    [u \in 1..minlength |->
        LET js == {j \in 1..Len(idx) : idx[j] = u - 1}
        IN  IF js = {} THEN Zero ELSE weights[Max(js)]]

\* np.bincount(idx, weights=weights, minlength=minlength), every idx[j]
\* being below minlength: element u is the sum of the weights of the
\* positions j with idx[j] = u
Bincount(idx, weights, minlength) ==
    [u \in 1..minlength |->
        RSum([j \in 1..Len(idx) |-> IF idx[j] = u - 1 THEN weights[j] ELSE Zero])]

\* grad_loss, lines 290-297: the gradient array of a factor matrix of n rows,
\* in row-major order; e is the column of ev that indexes its rows, other
\* the other factor matrix and o the column of ev that indexes other's rows
GradFactor(h, neg_res, ev, e, n, k, other, o) ==
    [m \in 1..(n * k) |->
        Bincount(Column(ev, e),
                 [j \in 1..Len(ev) |->
                     RMul(neg_res[j], Get(h, other, <<ev[j][o], (m - 1) % k>>))],
                 n)[((m - 1) \div k) + 1]]

\* grad_loss, lines 282-297: the gradient of the loss term, array by array
GradLossTerm(self, h, b, ev, sc, n_objects) ==
    LET v == Params(self, h, b)
        neg_res == NegRes(self, h, b, ev, sc)
    IN  [mu |-> <<RSum(neg_res)>>,
         bu |-> Bincount(Column(ev, 1), neg_res, n_objects[1]),
         bi |-> Bincount(Column(ev, 2), neg_res, n_objects[2]),
         p  |-> GradFactor(h, neg_res, ev, 1, n_objects[1], self.k, v["q"], 2),
         q  |-> GradFactor(h, neg_res, ev, 2, n_objects[2], self.k, v["p"], 1)]

\* the field of dtype dt that holds position n (1-based) of a buffer
FieldAt(dt, n) ==
    dt[CHOOSE j \in 1..Len(dt) : dt[j].offset < n /\ n <= dt[j].offset + dt[j].size]

\* PMF.grad_loss(coef, ev, sc, n_objects), coef the buffer b: the gradient
\* buffer.  The arrays of the loss term are written through views of grad
\* (lines 273-297), the whole of grad is divided by n_events (line 300), and
\* self._reg * x is added to the elements of bu, bi, p and q (lines 303-306).
GradLoss(self, h, b, ev, sc, n_objects) ==
    LET term == GradLossTerm(self, h, b, ev, sc, n_objects)
    IN  [n \in 1..Len(h[b]) |->
            LET f == FieldAt(self._dt.fields, n)
                scaled == NpDivInt(term[f.name][n - f.offset], Len(ev))
            IN  IF f.name = "mu" THEN scaled
                ELSE RAdd(scaled, RMul(self._reg.val, h[b][n]))]

\* coef with d added to its element n
Shifted(coef, n, d) == [coef EXCEPT ![n] = RAdd(@, d)]

\* the derivative of loss with respect to element n of the buffer b.  loss
\* is a polynomial of degree two in each single element, so the centred
\* difference (loss(x + e) - loss(x - e)) / 2 for the unit step e along n is
\* its derivative, exactly.
LossDerivative(self, h, b, ev, sc, n_objects, n) ==
    LET tmp == NewId(h)
        up == Loss(self, Alloc(h, tmp, Shifted(h[b], n, R(1))), tmp,
                   ev, sc, n_objects)
        down == Loss(self, Alloc(h, tmp, Shifted(h[b], n, R(-1))), tmp,
                     ev, sc, n_objects)
    IN  NpDivInt(RSub(up, down), 2)

\* BaseScorePredictor.fit(data, event_index, score_index, random_state): the
\* generator, the id tables and event information of data, and the training
\* events and scores, kept on the object until remove_data()
ScorePredictorFit(self, data, random_state) ==
    [SetEventInfo(SetObjectInfo(BaseFit(self, random_state), data), data)
        EXCEPT !.n_events = data.n_events, !.event = data.event,
               !.score = data.score]

\* BaseScorePredictor.get_event() for event_index = (0, 1), as
\* _get_event_and_score extracts them: the columns event_index of the events
\* and n_objects = self.n_objects[self.event_otypes[event_index]]
GetEvent(self) ==
    [ev |-> [j \in 1..Len(self.event.rows) |->
                <<self.event.rows[j][1], self.event.rows[j][2]>>],
     n_objects |-> <<self.n_objects[self.event_otypes[1] + 1],
                     self.n_objects[self.event_otypes[2] + 1]>>]

\* BaseScorePredictor.remove_data()
RemoveData(self) == [self EXCEPT !.event = None, !.score = None]

\* fit(**kwargs) called with no keyword arguments of the caller's
NoKwargs == [key \in {} |-> FALSE]

\* a dict with key set to val
DictSet(d, key, val) ==
    [c \in DOMAIN d \cup {key} |-> IF c = key THEN val ELSE d[c]]

\* del d[key]
DictDel(d, key) == [c \in DOMAIN d \ {key} |-> d[c]]

\* OptimizerArgs taking the object's maxiter whatever fit was given
OptimizerArgsOwnBudget(self, maxiter, kwargs) ==
    LET k1 == IF "disp" \notin DOMAIN kwargs
              THEN DictSet(kwargs, "disp", FALSE) ELSE kwargs
        k2 == IF "gtol" \in DOMAIN k1 THEN DictDel(k1, "gtol") ELSE k1
        k3 == IF self.tol # None THEN DictSet(k2, "gtol", self.tol) ELSE k2
    IN  DictSet(k3, "maxiter", self.maxiter.val * self._coef.shape[1])

\* fit, lines 348-358: the keyword arguments handed to the optimizer, made
\* of the caller's kwargs.  disp is set unless the caller gave it; the
\* caller's gtol is deleted; gtol is the object's tol when that is not None;
\* maxiter is int(maxiter * self._coef.shape[0]) with fit's maxiter, or the
\* object's when fit's is None.  fit's argument tol is not read.
OptimizerArgs(self, maxiter, kwargs) ==
    LET k1 == IF "disp" \notin DOMAIN kwargs
              THEN DictSet(kwargs, "disp", FALSE) ELSE kwargs
        k2 == IF "gtol" \in DOMAIN k1 THEN DictDel(k1, "gtol") ELSE k1
        k3 == IF self.tol # None THEN DictSet(k2, "gtol", self.tol) ELSE k2
    IN  DictSet(k3, "maxiter",
                IF maxiter = None THEN self.maxiter.val * self._coef.shape[1]
                ELSE maxiter.val * self._coef.shape[1])

\* the keyword arguments scipy's fmin_cg takes besides f, x0, fprime, args
\* and full_output; any other keyword makes the call raise TypeError
FminCgKeywords ==
    {"gtol", "norm", "epsilon", "maxiter", "disp", "retall", "callback"}

\* InitialLoss leaving fit_results_ as the constructor made it
InitialLossNotRecorded(self, h, ev, sc, n_objects) == self

\* fit, lines 360-362: self.fit_results_['initial_loss'] = self.loss(...)
InitialLoss(self, h, ev, sc, n_objects) ==
    [self EXCEPT !.fit_results_.initial_loss =
        Float(Loss(self, h, self._coef.buf, ev, sc, n_objects))]

\* fit, line 375: self._coef[:] = res[0]
GetParameters(self, h, xopt) == [h EXCEPT ![self._coef.buf] = xopt]

\* AppendZeroRow appending a row of ones (np.ones for np.zeros)
AppendOnesRow(h, a) ==
    IF Len(a.shape) = 1 THEN Elems(h, a) \o <<R(1)>>
    ELSE Elems(h, a) \o [f \in 1..a.shape[2] |-> R(1)]

\* np.r_[a, 0.0] for a 1-d array a, np.r_[a, np.zeros((1, k))] for a 2-d
\* array a of k columns: the elements of a new array, a with one row of
\* zeros appended
AppendZeroRow(h, a) ==
    IF Len(a.shape) = 1 THEN Elems(h, a) \o <<Zero>>
    ELSE Elems(h, a) \o [f \in 1..a.shape[2] |-> Zero]

\* the shape of a with one more row
OneMoreRow(a) == [a.shape EXCEPT ![1] = @ + 1]

\* FitResults recording success whatever the optimizer's flag
FitResultsFlagDropped(self, res, n_objects) ==
    [initial_loss |-> self.fit_results_.initial_loss,
     n_users    |-> IntVal(n_objects[1]),
     n_items    |-> IntVal(n_objects[2]),
     n_events   |-> IntVal(self.n_events),
     final_loss |-> Float(res.fopt),
     func_calls |-> IntVal(res.func_calls),
     grad_calls |-> IntVal(res.grad_calls),
     warnflag   |-> IntVal(0)]

\* fit, lines 387-393: self.fit_results_ after the optimizer has returned
\* res = (xopt, fopt, func_calls, grad_calls, warnflag)
FitResults(self, res, n_objects) ==
    [initial_loss |-> self.fit_results_.initial_loss,
     n_users    |-> IntVal(n_objects[1]),
     n_items    |-> IntVal(n_objects[2]),
     n_events   |-> IntVal(self.n_events),
     final_loss |-> Float(res.fopt),
     func_calls |-> IntVal(res.func_calls),
     grad_calls |-> IntVal(res.grad_calls),
     warnflag   |-> IntVal(res.warnflag)]

\* FinishFit keeping the buffer, the fitted tensors being views of it
FinishFitViews(self, h, res, n_objects) ==
    LET s2 == [self EXCEPT !.fit_results_ = FitResults(self, res, n_objects)]
        s3 == [RemoveData(s2) EXCEPT !._reg = Deleted, !._dt = Deleted,
                                     !._rng = Deleted]
    IN  [self |-> s3,
         heap |-> Collect(h, {s3.mu_, s3.bu_, s3.bi_, s3.p_, s3.q_, s3._coef})]

\* fit, lines 377-400: the fitted parameters as new arrays with a row for
\* unknown users and items, the results of fitting, and the clean-up.
\* res is the optimizer's (xopt, fopt, func_calls, grad_calls, warnflag).
FinishFit(self, h, res, n_objects) ==
    LET v   == Params(self, h, self._coef.buf)
        new(hh, a, vals, shape) ==
            [heap |-> Alloc(hh, NewId(hh), vals),
             arr  |-> [kind |-> "array", buf |-> NewId(hh), off |-> 0,
                       shape |-> shape]]
        \* add parameters for unknown users and items
        a1  == new(h, v["mu"], Elems(h, v["mu"]), v["mu"].shape)
        a2  == new(a1.heap, v["bu"], AppendZeroRow(h, v["bu"]), OneMoreRow(v["bu"]))
        a3  == new(a2.heap, v["bi"], AppendZeroRow(h, v["bi"]), OneMoreRow(v["bi"]))
        a4  == new(a3.heap, v["p"], AppendZeroRow(h, v["p"]), OneMoreRow(v["p"]))
        a5  == new(a4.heap, v["q"], AppendZeroRow(h, v["q"]), OneMoreRow(v["q"]))
        s1  == [self EXCEPT !.mu_ = a1.arr, !.bu_ = a2.arr, !.bi_ = a3.arr,
                            !.p_ = a4.arr, !.q_ = a5.arr]
        \* store fitting results
        s2  == [s1 EXCEPT !.fit_results_ = FitResults(self, res, n_objects)]
        \* clean up temporary instance variables
        s3  == [RemoveData(s2) EXCEPT !._coef = Deleted, !._reg = Deleted,
                                      !._dt = Deleted, !._rng = Deleted]
    IN  [self |-> s3,
         heap |-> Collect(a5.heap, {s3.mu_, s3.bu_, s3.bi_, s3.p_, s3.q_})]

\* a[i] for a Python index i into the rows of array a: the row number
WrapIndex(i, n) == IF i < 0 THEN i + n ELSE i

\* RawPredict scoring every row as the first row
RawPredictFirstRow(self, h, ev) ==
    [err |-> "none",
     val |-> [kind |-> "floats", shape |-> <<Len(ev.rows)>>,
              vals |-> [j \in 1..Len(ev.rows) |->
                           Score(h, self.mu_, self.bu_, self.bi_, self.p_,
                                 self.q_, ev.rows[1][1], ev.rows[1][2])]]]

\* PMF.raw_predict(ev), ev a 2-d array of internal ids: one score per row.
\* numpy's indexing with an index array raises IndexError for an index
\* outside [-n, n) and counts a negative index from the end.
RawPredict(self, h, ev) ==
    LET nu == self.bu_.shape[1]
        ni == self.bi_.shape[1]
        u(j) == WrapIndex(ev.rows[j][1], nu)
        i(j) == WrapIndex(ev.rows[j][2], ni)
    IN  IF self.mu_ = None
        THEN [err |-> "TypeError", val |-> None]
        ELSE IF \E j \in 1..Len(ev.rows) :
                    \/ ~InRange(ev.rows[j][1], nu)
                    \/ ~InRange(ev.rows[j][2], ni)
                    \/ ~InRange(ev.rows[j][1], self.p_.shape[1])
                    \/ ~InRange(ev.rows[j][2], self.q_.shape[1])
        THEN [err |-> "IndexError", val |-> None]
        ELSE [err |-> "none",
              val |-> [kind |-> "floats", shape |-> <<Len(ev.rows)>>,
                       vals |-> [j \in 1..Len(ev.rows) |->
                                    Score(h, self.mu_, self.bu_, self.bi_,
                                          self.p_, self.q_, u(j), i(j))]]]

\* np.squeeze: the axes of length 1 dropped
Squeeze(a) ==
    [a EXCEPT !.shape = IF a.shape = <<1>> THEN <<>> ELSE a.shape]

\* Predict refusing to score unless the optimizer reported convergence
PredictIfConverged(self, h, eev) ==
    LET a   == IF eev.ndim = 1 THEN Arr(eev.rows, eev.shape[1]) ELSE eev
        iid == ToIidEvent(self, a)
        raw == RawPredict(self, h, iid.val)
    IN  IF self.fit_results_.warnflag.val # 0
        THEN [err |-> "ValueError", val |-> None]
        ELSE IF a.shape[1] = 0 \/ a.shape[2] = 0
        THEN [err |-> "ValueError", val |-> None]
        ELSE IF a.shape[2] # self.s_event
        THEN [err |-> "TypeError", val |-> None]
        ELSE IF iid.err # "none" THEN iid
        ELSE IF raw.err # "none" THEN raw
        ELSE [err |-> "none", val |-> Squeeze(raw.val)]

\* BaseEventRecommender.predict(eev), eev a vector or a 2-d array of
\* external ids.  np.atleast_2d makes a vector a one-row array; sklearn's
\* check_array raises ValueError for an array of no rows or no columns.
Predict(self, h, eev) ==
    LET a   == IF eev.ndim = 1 THEN Arr(eev.rows, eev.shape[1]) ELSE eev
        iid == ToIidEvent(self, a)
        raw == RawPredict(self, h, iid.val)
    IN  IF a.shape[1] = 0 \/ a.shape[2] = 0
        THEN [err |-> "ValueError", val |-> None]
        ELSE IF a.shape[2] # self.s_event
        THEN [err |-> "TypeError", val |-> None]
        ELSE IF iid.err # "none" THEN iid
        ELSE IF raw.err # "none" THEN raw
        ELSE [err |-> "none", val |-> Squeeze(raw.val)]

(***************************************************************************)
(* The state machine: one event container, one recommender                 *)
(***************************************************************************)
VARIABLES
    data,   \* the EventWithScoreData object
    x,      \* the raw events and scores last handed to set_events
    pmf,    \* the PMF object
    heap,   \* the float arrays: buffer id -> elements
    pc,     \* where the call of fit stands
    fr,     \* fit's local variables
    ret,    \* the last call of predict, raw_predict, to_iid_event,
            \* to_eid_event: its argument and what it returned or raised
    other   \* a second recommender of the same process with its container,
            \* while the caller is not working on it: its data, x, pmf, pc,
            \* fr and ret.  The float arrays of both are in heap.

vars == <<data, x, pmf, heap, pc, fr, ret, other>>

\* the inputs the model draws from
CValues == {Rat(1, 10)}

RandomStates == {None} \cup {IntVal(s) : s \in Seeds}

RawEvents == UNION {[1..n -> ExtUsers \X ExtItems] : n \in 0..MaxEvents}

\* the vectors the optimizer may return for a start x0 of length n: the
\* start itself, and vectors whose elements all differ
OptOutputs(x0) ==
    {x0, [j \in 1..Len(x0) |-> R(j)], [j \in 1..Len(x0) |-> Rat(-j, 2)]}

Warnflags == {0, 1, 2}

\* external id pairs handed to predict and to to_iid_event
PredictPairs == (ExtUsers \cup UnknownUsers) \X (ExtItems \cup UnknownItems)

\* the rows of the batches handed to predict: a known and an unknown id of
\* each kind
BatchPairs ==
    {p \in PredictPairs : p[1] <= Max(UnknownUsers) /\ p[2] >= Min(UnknownItems)}

NoCall == [op |-> "none", arg |-> None, err |-> "none", val |-> None]

\* the process holds one recommender only
NoObject == [kind |-> "none"]

\* the buffers the arrays of object o use
Bufs(o) ==
    {a.buf : a \in {c \in {o.mu_, o.bu_, o.bi_, o.p_, o.q_, o._coef} :
                        c.kind = "array"}}

\* the heap h_new an operation of one object left, with the buffers of h_old
\* that the arrays of the second recommender o use: garbage collection frees
\* no array that is referenced
Keep(h_new, h_old, o) ==
    LET kept == IF o = NoObject THEN {} ELSE Bufs(o.pmf) \cap DOMAIN h_old
    IN  [b \in DOMAIN h_new \cup kept |->
            IF b \in DOMAIN h_new THEN h_new[b] ELSE h_old[b]]

NoFrame == [ev |-> <<>>, sc |-> <<>>, n_objects |-> <<>>, tol |-> None,
            maxiter |-> None, kwargs |-> NoKwargs, res |-> None,
            grad |-> <<>>, random_state |-> None]

\* internal ids handed to raw_predict for an object type of n objects: below
\* the first row, the rows, the row for unknown objects, and beyond it
RawIds(n) == (-1)..(n + 1)

Init ==
    /\ data = NewEventData(<<0, 1>>)
    /\ x = None
    /\ \E C \in CValues, k \in 0..MaxK :
          pmf = NewPMF(C, k, None, IntVal(200), None)
    /\ heap = <<>>
    /\ pc = "new"
    /\ fr = NoFrame
    /\ ret = NoCall
    /\ other = NoObject

\* data.set_events(event, score).  What set_events leaves depends on its
\* arguments alone, so one call reaches every state a sequence of calls does.
DoSetEvents ==
    /\ pc = "new"
    /\ x = None
    /\ \E rows \in RawEvents :
       \E sc \in [1..Len(rows) -> Scores] :
          /\ data' = SetEventsWithScore(data, Arr(rows, 2), sc)
          /\ x' = [event |-> Arr(rows, 2), score |-> sc]
    /\ UNCHANGED <<other, pmf, heap, pc, fr, ret>>

\* pmf.fit(data, tol=tol, maxiter=maxiter, random_state=rs, **kwargs), up to
\* the call of _init_coef
FitBeginCall(states, tols, maxiters, kwargss) ==
    /\ pc = "new"
    /\ data.event # None
    /\ \E rs \in states, tol \in tols, maxiter \in maxiters,
          kwargs \in kwargss :
          LET self == ScorePredictorFit(pmf, data, rs)
          IN  /\ pmf' = self
              /\ fr' = [NoFrame EXCEPT !.ev = GetEvent(self).ev,
                                       !.sc = self.score.vals,
                                       !.n_objects = GetEvent(self).n_objects,
                                       !.tol = tol,
                                       !.maxiter = maxiter,
                                       !.kwargs = kwargs,
                                       !.random_state = rs]
    /\ pc' = "init"
    /\ UNCHANGED <<other, data, x, heap, ret>>

\* pmf.fit(data, random_state=rs)
FitBeginWith(states) == FitBeginCall(states, {None}, {None}, {NoKwargs})

FitBegin == FitBeginWith(RandomStates)

\* fit, line 346: self._init_coef(ev, sc, n_objects)
FitInitCoef ==
    /\ pc = "init"
    /\ \E seed \in IF pmf._rng.kind = "global" THEN Seeds ELSE {pmf._rng.seed} :
          LET r == InitCoef(pmf, heap, fr.ev, fr.sc, fr.n_objects, seed)
          IN  /\ pmf' = r.self
              /\ heap' = r.heap
              /\ pc' = IF r.err = "none" THEN "initialized" ELSE r.err
    /\ UNCHANGED <<other, data, x, fr, ret>>

\* fit, lines 348-362: the optimizer's arguments and the initial loss
FitInitialLoss ==
    /\ pc = "initialized"
    /\ fr' = [fr EXCEPT !.kwargs = OptimizerArgs(pmf, fr.maxiter, fr.kwargs)]
    /\ pmf' = InitialLoss(pmf, heap, fr.ev, fr.sc, fr.n_objects)
    /\ pc' = "optimizing"
    /\ UNCHANGED <<other, data, x, heap, ret>>

\* fit, lines 367-372: fmin_cg returns (xopt, fopt, func_calls, grad_calls,
\* warnflag); it works on a copy of the start and leaves self._coef alone.
\* Its first evaluation of fprime = self.grad_loss is at the start; fr.grad
\* keeps what that call returned.
FitOptimizeWith(flags) ==
    /\ pc = "optimizing"
    /\ DOMAIN fr.kwargs \subseteq FminCgKeywords
    /\ \E xopt \in OptOutputs(heap[pmf._coef.buf]), w \in flags :
          LET tmp == NewId(heap)
          IN  fr' = [fr EXCEPT !.res =
                        [xopt |-> xopt,
                         fopt |-> Loss(pmf, Alloc(heap, tmp, xopt), tmp,
                                       fr.ev, fr.sc, fr.n_objects),
                         func_calls |-> 3, grad_calls |-> 2, warnflag |-> w],
                     !.grad = GradLoss(pmf, heap, pmf._coef.buf,
                                       fr.ev, fr.sc, fr.n_objects)]
    /\ pc' = "optimized"
    /\ UNCHANGED <<other, data, x, pmf, heap, ret>>

FitOptimize == FitOptimizeWith(Warnflags)

\* fit, line 375
FitGetParameters ==
    /\ pc = "optimized"
    /\ heap' = GetParameters(pmf, heap, fr.res.xopt)
    /\ pc' = "copied"
    /\ UNCHANGED <<other, data, x, pmf, fr, ret>>

\* fit, lines 377-400, and the return of fit
FitFinish ==
    /\ pc = "copied"
    /\ LET r == FinishFit(pmf, heap, fr.res, fr.n_objects)
       IN  pmf' = r.self /\ heap' = Keep(r.heap, heap, other)
    /\ fr' = NoFrame
    /\ pc' = "fitted"
    /\ UNCHANGED <<other, data, x, ret>>

Next ==
    \/ DoSetEvents
    \/ FitBegin
    \/ FitInitCoef
    \/ FitInitialLoss
    \/ FitOptimize
    \/ FitGetParameters
    \/ FitFinish

\* the life of one recommender: data, then one call of fit
Spec == Init /\ [][Next]_vars

(***************************************************************************)
(* Prediction on fitted models                                             *)
(***************************************************************************)
\* pmf.predict(eev) on a fitted model, for one pair or a batch of pairs
DoPredict ==
    /\ pc = "fitted"
    /\ ret = NoCall
    /\ \E eev \in {Vec(pr) : pr \in PredictPairs}
                  \cup {Arr(b, 2) : b \in UNION {[1..n -> BatchPairs] :
                                                 n \in 2..MaxBatch}} :
          ret' = [op |-> "predict", arg |-> eev] @@ Predict(pmf, heap, eev)
    /\ UNCHANGED <<other, data, x, pmf, heap, pc, fr>>

\* pmf.raw_predict(ev) on a fitted model, for a one-row array of internal ids
DoRawPredict ==
    /\ pc = "fitted"
    /\ ret = NoCall
    /\ \E u \in RawIds(pmf.n_objects[1]), i \in RawIds(pmf.n_objects[2]) :
          ret' = [op |-> "raw_predict", arg |-> Arr(<<<<u, i>>>>, 2)]
                 @@ RawPredict(pmf, heap, Arr(<<<<u, i>>>>, 2))
    /\ UNCHANGED <<other, data, x, pmf, heap, pc, fr>>

\* the caller drops what the last call returned
Discard ==
    /\ ret # NoCall
    /\ ret' = NoCall
    /\ UNCHANGED <<other, data, x, pmf, heap, pc, fr>>

\* pmf.to_iid_event(ev) on a fitted model, for one pair of external ids
DoModelToIidEvent ==
    /\ pc = "fitted"
    /\ ret = NoCall
    /\ \E pr \in PredictPairs :
          ret' = [op |-> "to_iid_event", arg |-> Vec(pr)]
                 @@ ToIidEvent(pmf, Vec(pr))
    /\ UNCHANGED <<other, data, x, pmf, heap, pc, fr>>

NextPredict ==
    \/ DoSetEvents
    \/ FitBeginWith({IntVal(0)})
    \/ FitInitCoef
    \/ FitInitialLoss
    \/ FitOptimizeWith({0})
    \/ FitGetParameters
    \/ FitFinish
    \/ DoPredict
    \/ DoRawPredict
    \/ DoModelToIidEvent
    \/ Discard

\* fits with seed 0 on which the optimizer converges, then any predictions
SpecPredict == Init /\ [][NextPredict]_vars

(***************************************************************************)
(* The event container alone: set_events and the id conversions            *)
(***************************************************************************)
\* the object type of each event column: users then items, or items then
\* users
EventOtypes == {<<0, 1>>, <<1, 0>>}

InitData ==
    /\ \E ot \in EventOtypes : data = NewEventData(ot)
    /\ x = None
    /\ pmf = NewPMF(Rat(1, 10), 1, None, IntVal(200), None)
    /\ heap = <<>>
    /\ pc = "new"
    /\ fr = NoFrame
    /\ ret = NoCall
    /\ other = NoObject

\* data.to_iid_event(ev): for a pair of external ids, for the raw array
\* handed to set_events, and for a vector of the wrong length
DoToIidEvent ==
    /\ x # None
    /\ ret = NoCall
    /\ \E ev \in {Vec(pr) : pr \in PredictPairs} \cup {x.event, Vec(<<5>>)} :
          ret' = [op |-> "to_iid_event", arg |-> ev] @@ ToIidEvent(data, ev)
    /\ UNCHANGED <<other, data, x, pmf, heap, pc, fr>>

\* data.to_eid_event(ev): for a pair of internal ids, in range or not, for
\* the event array of the container, and for a vector of the wrong length
DoToEidEvent ==
    /\ x # None
    /\ ret = NoCall
    /\ \E ev \in {Vec(<<u, i>>) : u \in RawIds(data.n_objects[1]),
                                  i \in RawIds(data.n_objects[2])}
                 \cup {data.event, Vec(<<0>>)} :
          ret' = [op |-> "to_eid_event", arg |-> ev] @@ ToEidEvent(data, ev)
    /\ UNCHANGED <<other, data, x, pmf, heap, pc, fr>>

NextData ==
    \/ DoSetEvents
    \/ DoToIidEvent
    \/ DoToEidEvent
    \/ Discard

SpecData == InitData /\ [][NextData]_vars

(***************************************************************************)
(* The event container: set_events and filter_event                        *)
(***************************************************************************)
\* the feature (a timestamp) of the j-th raw event
Timestamp(j) == 870 + j

\* data.set_events(event, event_feature), with features or without.  What
\* set_events leaves depends on its arguments alone: calling it again is
\* modelled where the container differs most from one just set, after
\* filter_event calls that dropped every event.
DoSetEventsFeature ==
    /\ ret = NoCall
    /\ IF x = None THEN TRUE
       ELSE data.n_events > 0 /\ data.event.rows = <<>>
    /\ \E rows \in RawEvents, with \in BOOLEAN :
          LET feature == IF with
                         THEN Features([j \in 1..Len(rows) |-> Timestamp(j)])
                         ELSE None
          IN  /\ data' = SetEvents(data, Arr(rows, 2), feature)
              /\ x' = [event |-> Arr(rows, 2), score |-> <<>>]
    /\ UNCHANGED <<other, pmf, heap, pc, fr, ret>>

\* the boolean arrays handed to filter_event: one entry per event; any
\* array when the container has no events yet
FilterConds(self) ==
    IF self.event = None THEN {<<>>, <<TRUE, FALSE>>}
    ELSE [1..Len(self.event.rows) -> BOOLEAN]

\* data.filter_event(filter_cond)
DoFilterEvent ==
    /\ ret = NoCall
    /\ \E cond \in FilterConds(data) :
          /\ data' = FilterEvent(data, cond)
          /\ ret' = [op |-> "filter_event",
                     arg |-> [kind |-> "bools", vals |-> cond],
                     err |-> "none", val |-> None]
    /\ UNCHANGED <<other, x, pmf, heap, pc, fr>>

\* an event container and an item finder that reads it
InitFilter ==
    /\ \E ot \in EventOtypes : data = NewEventData(ot)
    /\ x = None
    /\ pmf = NewItemFinder(None)
    /\ heap = <<>>
    /\ pc = "new"
    /\ fr = NoFrame
    /\ ret = NoCall
    /\ other = NoObject

\* finder._get_event_array(data, sparse_type=t) on a container with events;
\* pmf is the item finder
DoGetEventArray ==
    /\ ret = NoCall
    /\ data.event # None
    /\ \E t \in SparseTypes \cup {"coo"} :
          LET r == GetEventArray(pmf, data, <<0, 1>>, t)
          IN  /\ pmf' = r.self
              /\ ret' = [op |-> "_get_event_array",
                         arg |-> [kind |-> "str", val |-> t],
                         err |-> r.err, val |-> r.val]
    /\ UNCHANGED <<other, data, x, heap, pc, fr>>

NextFilter ==
    \/ DoSetEventsFeature
    \/ DoFilterEvent
    \/ DoGetEventArray
    \/ Discard

\* any sequence of set_events and filter_event calls on one container, and
\* the event arrays made of it
SpecFilter == InitFilter /\ [][NextFilter]_vars

(***************************************************************************)
(* fit called with its optional arguments                                  *)
(***************************************************************************)
\* training sets of two users and two items: raw events and their scores
TrainingSets ==
    {[event |-> Arr(<<<<5, 2>>, <<7, 9>>>>, 2), score |-> <<R(1), R(4)>>],
     [event |-> Arr(<<<<5, 2>>, <<5, 9>>, <<7, 9>>>>, 2), score |-> <<R(4), R(1), R(4)>>]}

\* tolerances handed to the constructor and to fit
CtorTols == {None, Float(Rat(1, 1000))}

FitTols == {None, Float(Rat(1, 100))}

\* iteration budgets handed to fit
FitMaxiters == {None, IntVal(10), IntVal(0)}

\* keyword arguments handed to fit for the optimizer: none, a tolerance, a
\* verbosity, and a keyword fmin_cg does not have
FitKwargs ==
    {NoKwargs, [gtol |-> Float(Rat(1, 10))], [disp |-> TRUE],
     [bogus |-> TRUE]}

InitArgs ==
    /\ data = NewEventData(<<0, 1>>)
    /\ x = None
    /\ \E C \in CValues, k \in 0..MaxK, tol \in CtorTols :
          pmf = NewPMF(C, k, tol, IntVal(200), None)
    /\ heap = <<>>
    /\ pc = "new"
    /\ fr = NoFrame
    /\ ret = NoCall
    /\ other = NoObject

\* data.set_events(event, score) for one of the training sets
DoSetTrainingSet ==
    /\ pc = "new"
    /\ x = None
    /\ \E t \in TrainingSets :
          /\ data' = SetEventsWithScore(data, t.event, t.score)
          /\ x' = t
    /\ UNCHANGED <<other, pmf, heap, pc, fr, ret>>

\* a training set one of whose scores is nan (a missing rating read as nan)
CorruptedSets ==
    {[event |-> Arr(<<<<5, 2>>, <<5, 9>>, <<7, 9>>>>, 2),
      score |-> <<R(4), NaN, R(1)>>]}

\* data.set_events(event, score) for a training set with a nan score
DoSetCorruptedSet ==
    /\ pc = "new"
    /\ x = None
    /\ \E t \in CorruptedSets :
          /\ data' = SetEventsWithScore(data, t.event, t.score)
          /\ x' = t
    /\ UNCHANGED <<other, pmf, heap, pc, fr, ret>>

FitBeginArgs == FitBeginCall({IntVal(0)}, FitTols, FitMaxiters, FitKwargs)

\* fit, lines 367-372: fmin_cg called with a keyword it does not have raises
\* TypeError before it evaluates anything; fit has no handler
FitOptimizeRaises ==
    /\ pc = "optimizing"
    /\ ~(DOMAIN fr.kwargs \subseteq FminCgKeywords)
    /\ pc' = "TypeError"
    /\ UNCHANGED <<other, data, x, pmf, heap, fr, ret>>

NextArgs ==
    \/ DoSetTrainingSet
    \/ DoSetCorruptedSet
    \/ FitBeginArgs
    \/ FitInitCoef
    \/ FitInitialLoss
    \/ FitOptimizeWith(Warnflags)
    \/ FitOptimizeRaises
    \/ FitGetParameters
    \/ FitFinish

\* one call of fit with any of its optional arguments
SpecArgs == InitArgs /\ [][NextArgs]_vars

(***************************************************************************)
(* fit with a descent optimizer                                            *)
(***************************************************************************)
\* fmin_cg accepts a step only when its line search found a lower value of
\* the function, and it returns the function's value at the point it
\* returns: from a start with a finite value it never returns a point with
\* a higher one.  A function that is nan everywhere gives it nothing to
\* compare, and it returns some point and the value nan.
FitOptimizeDescent ==
    /\ pc = "optimizing"
    /\ DOMAIN fr.kwargs \subseteq FminCgKeywords
    /\ \E xopt \in OptOutputs(heap[pmf._coef.buf]), w \in Warnflags :
          LET tmp == NewId(heap)
              fopt == Loss(pmf, Alloc(heap, tmp, xopt), tmp,
                           fr.ev, fr.sc, fr.n_objects)
              f0 == Loss(pmf, heap, pmf._coef.buf, fr.ev, fr.sc, fr.n_objects)
          IN  /\ IsNaN(f0) \/ RLe(fopt, f0)
              /\ fr' = [fr EXCEPT !.res =
                          [xopt |-> xopt, fopt |-> fopt,
                           func_calls |-> 3, grad_calls |-> 2, warnflag |-> w],
                       !.grad = GradLoss(pmf, heap, pmf._coef.buf,
                                         fr.ev, fr.sc, fr.n_objects)]
    /\ pc' = "optimized"
    /\ UNCHANGED <<other, data, x, pmf, heap, ret>>

\* arguments of a call of _init_coef by a caller of its own: events in
\* internal ids with a pair that occurs twice, and more users and items
\* than occur in the events
DirectArgs ==
    {[ev |-> <<<<0, 0>>, <<0, 0>>, <<0, 1>>, <<2, 1>>>>,
      sc |-> <<R(1), R(4), R(4), R(1)>>,
      n_objects |-> <<3, 3>>]}

\* pmf._rng = check_random_state(seed); pmf._init_coef(ev, sc, n_objects)
DoInitCoef ==
    /\ pc = "new"
    /\ x = None
    /\ \E a \in DirectArgs, seed \in Seeds :
          LET self == [pmf EXCEPT !._rng = CheckRandomState(IntVal(seed))]
              r == InitCoef(self, heap, a.ev, a.sc, a.n_objects, seed)
          IN  /\ pmf' = r.self
              /\ heap' = r.heap
              /\ pc' = IF r.err = "none" THEN "coef" ELSE r.err
              /\ fr' = [NoFrame EXCEPT !.ev = a.ev, !.sc = a.sc,
                                       !.n_objects = a.n_objects]
    /\ UNCHANGED <<other, data, x, ret>>

\* pmf.loss(pmf._coef, ev, sc, n_objects) and pmf.grad_loss(pmf._coef, ev,
\* sc, n_objects) on the buffer a direct call of _init_coef left
DoGradLoss ==
    /\ pc = "coef"
    /\ fr' = [fr EXCEPT !.grad = GradLoss(pmf, heap, pmf._coef.buf,
                                          fr.ev, fr.sc, fr.n_objects)]
    /\ pmf' = InitialLoss(pmf, heap, fr.ev, fr.sc, fr.n_objects)
    /\ pc' = "grad"
    /\ UNCHANGED <<other, data, x, heap, ret>>

NextDescent ==
    \/ DoSetTrainingSet
    \/ DoSetCorruptedSet
    \/ DoInitCoef
    \/ DoGradLoss
    \/ FitBeginWith(RandomStates)
    \/ FitInitCoef
    \/ FitInitialLoss
    \/ FitOptimizeDescent
    \/ FitGetParameters
    \/ FitFinish

\* one call of fit, the optimizer being a descent method
SpecDescent == InitArgs /\ [][NextDescent]_vars

(***************************************************************************)
(* Two recommenders in one process                                         *)
(***************************************************************************)
\* the random_state arguments of the constructors and of the calls of fit
CtorStates == {None, IntVal(1)}

TwoFitStates == {None, IntVal(0)}

\* two PMF objects, each with an event container of its own
InitTwo ==
    /\ data = NewEventData(<<0, 1>>)
    /\ x = None
    /\ heap = <<>>
    /\ pc = "new"
    /\ fr = NoFrame
    /\ ret = NoCall
    /\ \E C \in CValues, rs1 \in CtorStates, rs2 \in CtorStates :
          /\ pmf = NewPMF(C, 1, None, IntVal(200), rs1)
          /\ other = [data |-> NewEventData(<<0, 1>>), x |-> None,
                      pmf |-> NewPMF(C, 1, None, IntVal(200), rs2),
                      pc |-> "new", fr |-> NoFrame, ret |-> NoCall]

\* the caller (or the thread scheduler) turns to the other recommender
Switch ==
    /\ other # NoObject
    /\ other' = [data |-> data, x |-> x, pmf |-> pmf, pc |-> pc, fr |-> fr,
                 ret |-> ret]
    /\ data' = other.data
    /\ x' = other.x
    /\ pmf' = other.pmf
    /\ pc' = other.pc
    /\ fr' = other.fr
    /\ ret' = other.ret
    /\ UNCHANGED heap

NextTwo ==
    \/ DoSetTrainingSet
    \/ FitBeginWith(TwoFitStates)
    \/ FitInitCoef
    \/ FitInitialLoss
    \/ FitOptimizeWith({0})
    \/ FitGetParameters
    \/ FitFinish
    \/ Switch

\* two recommenders fitted once each, their steps interleaved in any order
SpecTwo == InitTwo /\ [][NextTwo]_vars

(***************************************************************************)
(* One recommender fitted again and again                                  *)
(***************************************************************************)
InitRefit ==
    /\ data = NewEventData(<<0, 1>>)
    /\ x = None
    /\ \E C \in CValues, k \in 0..MaxK, rs \in CtorStates :
          pmf = NewPMF(C, k, None, IntVal(200), rs)
    /\ heap = <<>>
    /\ pc = "new"
    /\ fr = NoFrame
    /\ ret = NoCall
    /\ other = NoObject

\* data.set_events(event, score) after a fit: the container takes another
\* training set
DoSetEventsAgain ==
    /\ pc = "fitted"
    /\ \E t \in TrainingSets \ {x} :
          /\ data' = SetEventsWithScore(data, t.event, t.score)
          /\ x' = t
    /\ UNCHANGED <<other, pmf, heap, pc, fr, ret>>

\* pmf.fit(data, random_state=rs) on an object that fit has returned from, up
\* to the call of _init_coef
FitAgainBegin ==
    /\ pc = "fitted"
    /\ data.event # None
    /\ \E rs \in TwoFitStates :
          LET self == ScorePredictorFit(pmf, data, rs)
          IN  /\ pmf' = self
              /\ fr' = [NoFrame EXCEPT !.ev = GetEvent(self).ev,
                                       !.sc = self.score.vals,
                                       !.n_objects = GetEvent(self).n_objects,
                                       !.random_state = rs]
    /\ pc' = "init"
    /\ UNCHANGED <<other, data, x, heap, ret>>

NextRefit ==
    \/ DoSetTrainingSet
    \/ FitBeginWith(TwoFitStates)
    \/ FitInitCoef
    \/ FitInitialLoss
    \/ FitOptimizeWith({0})
    \/ FitGetParameters
    \/ FitFinish
    \/ DoSetEventsAgain
    \/ FitAgainBegin

\* one recommender, fitted any number of times on any of the training sets
SpecRefit == InitRefit /\ [][NextRefit]_vars

(***************************************************************************)
(* scripts/exp_recsys_common: cv_test                                      *)
(***************************************************************************)
\* the numbers of folds asked for
CvFolds == {2, 3}

\* interlace_group(n_events, n_folds): event j is in group j mod n_folds
InterlaceGroup(n_events, n_folds) == [j \in 1..n_events |-> (j - 1) % n_folds]

\* np.flatnonzero(mask): the positions (from 0) at which the boolean array
\* mask is True, in increasing order
Flatnonzero(mask) ==
    LET sel == SelectSeq([j \in 1..Len(mask) |-> j], LAMBDA j : mask[j])
    IN  [n \in 1..Len(sel) |-> sel[n] - 1]

\* LeaveOneGroupOut().split(ev, groups=groups): one split per group, in the
\* order of the groups' numbers; split g has the positions outside group g
\* as train_i and those of group g as test_i
CvSplit(groups, g) ==
    [train_i |-> Flatnonzero([j \in 1..Len(groups) |-> groups[j] # g]),
     test_i  |-> Flatnonzero([j \in 1..Len(groups) |-> groups[j] = g])]

InitCv ==
    /\ data = NewEventData(<<0, 1>>)
    /\ x = None
    /\ pmf = NewPMF(Rat(1, 10), 1, None, IntVal(200), None)
    /\ heap = <<>>
    /\ pc = "new"
    /\ fr = NoFrame
    /\ ret = NoCall
    /\ other = NoObject

\* cv_test, lines 243-251: load_data reads a file of at least two events
\* into an EventWithScoreData
CvLoad ==
    /\ pc = "new"
    /\ \E rows \in RawEvents, n_folds \in CvFolds :
       \E sc \in [1..Len(rows) -> Scores] :
          /\ Len(rows) >= 2
          /\ LET d == SetEventsWithScore(data, Arr(rows, 2), sc)
             IN  /\ data' = d
                 /\ fr' = [n_events |-> d.n_events,
                           ev |-> ToEidEvent(d, d.event).val,
                           n_folds |-> n_folds,
                           groups |-> InterlaceGroup(d.n_events, n_folds),
                           fold |-> 0,
                           esc |-> Zeros(d.n_events),
                           training_data |-> None]
          /\ x' = [event |-> Arr(rows, 2), score |-> sc]
    /\ pc' = "cv_split"
    /\ UNCHANGED <<other, pmf, heap, ret>>

\* cv_test, lines 252-255: the next split, and
\* training_data = data.filter_event(train_i).  filter_event works on data
\* itself and returns nothing.
CvFilter ==
    /\ pc = "cv_split"
    /\ fr.fold \in Range(fr.groups)
    /\ data' = FilterEventAt(data, CvSplit(fr.groups, fr.fold).train_i)
    /\ fr' = [fr EXCEPT !.training_data = None]
    /\ pc' = "cv_train"
    /\ UNCHANGED <<other, x, pmf, heap, ret>>

\* cv_test, line 256, and training, lines 59-122: rec = PMF(**options) and
\* rec.fit(data) for the data cv_test hands over, which is None: the first
\* attribute of data that fit reads raises AttributeError
CvTraining ==
    /\ pc = "cv_train"
    /\ fr.training_data = None
    /\ pmf' = NewPMF(pmf.C, pmf.k, pmf.tol, pmf.maxiter, pmf.random_state)
    /\ pc' = "AttributeError"
    /\ UNCHANGED <<other, data, x, heap, fr, ret>>

NextCv ==
    \/ CvLoad
    \/ CvFilter
    \/ CvTraining

\* one run of cv_test
SpecCv == InitCv /\ [][NextCv]_vars

(***************************************************************************)
(* Properties of the parameter buffer and of fit                           *)
(***************************************************************************)
\* the sub-tensors of the model by name
NamedViews ==
    [mu |-> pmf.mu_, bu |-> pmf.bu_, bi |-> pmf.bi_, p |-> pmf.p_,
     q |-> pmf.q_]

\* the index tuples of the elements of a view
Indices(a) ==
    IF Len(a.shape) = 1 THEN {<<e>> : e \in 0..(a.shape[1] - 1)}
    ELSE {<<r, c>> : r \in 0..(a.shape[1] - 1), c \in 0..(a.shape[2] - 1)}

\* fit's call frame holds the numbers of users and items
InFit == Len(fr.n_objects) = 2

\* C1: for n_users, n_items and k all at least 1 the parameter buffer has
\* exactly 1 + n_users + n_items + k*n_users + k*n_items elements laid out
\* as mu at index 0, bu at 1 + u, bi at 1 + n_users + i, p row-major from
\* 1 + n_users + n_items, q row-major from there plus n_users*k; the
\* sub-tensors do not overlap and together cover every index.
C1_BufferLayout ==
    (/\ InFit
     /\ pmf._coef.kind = "array"
     /\ fr.n_objects[1] >= 1 /\ fr.n_objects[2] >= 1 /\ pmf.k >= 1)
    => LET nu  == fr.n_objects[1]
           ni  == fr.n_objects[2]
           k   == pmf.k
           dt  == pmf._dt.fields
           len == Len(heap[pmf._coef.buf])
           at(name, e) == Field(dt, name).offset + e
           elements == {el \in (1..Len(dt)) \X (0..(len - 1)) :
                           el[2] < dt[el[1]].size}
       IN  /\ len = 1 + nu + ni + k * nu + k * ni
           /\ pmf._coef.shape = <<len>> /\ pmf._coef.off = 0
           /\ [f \in 1..Len(dt) |-> dt[f].name] = <<"mu", "bu", "bi", "p", "q">>
           /\ [f \in 1..Len(dt) |-> dt[f].size] = <<1, nu, ni, nu * k, ni * k>>
           /\ at("mu", 0) = 0
           /\ \A u \in 0..(nu - 1) : at("bu", u) = 1 + u
           /\ \A i \in 0..(ni - 1) : at("bi", i) = 1 + nu + i
           /\ \A u \in 0..(nu - 1), f \in 0..(k - 1) :
                 at("p", u * k + f) = 1 + nu + ni + u * k + f
           /\ \A i \in 0..(ni - 1), f \in 0..(k - 1) :
                 at("q", i * k + f) = 1 + nu + ni + nu * k + i * k + f
           /\ \A j \in 0..(len - 1) :
                 Cardinality({el \in elements :
                                 dt[el[1]].offset + el[2] = j}) = 1
           /\ pmf.p_.kind = "array" =>
                 /\ pmf.p_.shape = <<nu, k>> /\ pmf.q_.shape = <<ni, k>>
                 /\ \A u \in 0..(nu - 1), f \in 0..(k - 1) :
                       FlatIndex(pmf.p_, <<u, f>>) = 1 + nu + ni + u * k + f
                 /\ \A i \in 0..(ni - 1), f \in 0..(k - 1) :
                       FlatIndex(pmf.q_, <<i, f>>)
                          = 1 + nu + ni + nu * k + i * k + f

\* C1's case: a buffer for two users, two items and two factors
C1_Witness ==
    /\ pc = "initialized"
    /\ fr.n_objects = <<2, 2>> /\ pmf.k = 2
    /\ Len(heap[pmf._coef.buf]) = 13
    /\ pmf.q_.kind = "array"

\* C2: every named sub-tensor is a view of the parameter buffer, never a
\* copy: a write through the sub-tensor is read back at the buffer index the
\* layout gives, and a write to the buffer is read back through the
\* sub-tensor.
C2_ViewsAliasBuffer ==
    (/\ InFit /\ pmf._coef.kind = "array" /\ pmf.q_ # None
     /\ fr.n_objects[1] >= 1 /\ fr.n_objects[2] >= 1 /\ pmf.k >= 1)
    => \A name \in DOMAIN NamedViews :
          LET v == NamedViews[name]
              f == Field(pmf._dt.fields, name)
          IN  /\ v.kind = "array"
              /\ v.buf = pmf._coef.buf
              /\ \A idx \in Indices(v) :
                    LET j == <<FlatIndex(v, idx)>>
                    IN  /\ f.offset <= j[1] /\ j[1] < f.offset + f.size
                        /\ Get(Put(heap, v, idx, R(7)), pmf._coef, j) = R(7)
                        /\ Get(Put(heap, pmf._coef, j, R(7)), v, idx) = R(7)

\* C3: when fit succeeds, bu_ and bi_ have n_users + 1 and n_items + 1
\* elements and p_ and q_ have n_users + 1 and n_items + 1 rows of k
\* columns; the last element or row of each is zero, the others are the
\* optimizer's result, and mu_ has one element.
C3_FallbackRowsAppended ==
    [][(pc = "copied" /\ pc' = "fitted")
       => LET nu == fr.n_objects[1]
              ni == fr.n_objects[2]
              k  == pmf.k
              xo == fr.res.xopt
              m  == pmf'
              h  == heap'
          IN  /\ m.mu_.shape = <<1>> /\ Len(h[m.mu_.buf]) = 1
              /\ Get(h, m.mu_, <<0>>) = xo[1]
              /\ m.bu_.shape = <<nu + 1>> /\ Len(h[m.bu_.buf]) = nu + 1
              /\ m.bi_.shape = <<ni + 1>> /\ Len(h[m.bi_.buf]) = ni + 1
              /\ m.p_.shape = <<nu + 1, k>>
              /\ Len(h[m.p_.buf]) = (nu + 1) * k
              /\ m.q_.shape = <<ni + 1, k>>
              /\ Len(h[m.q_.buf]) = (ni + 1) * k
              /\ \A u \in 0..(nu - 1) : Get(h, m.bu_, <<u>>) = xo[2 + u]
              /\ \A i \in 0..(ni - 1) : Get(h, m.bi_, <<i>>) = xo[2 + nu + i]
              /\ \A u \in 0..(nu - 1), f \in 0..(k - 1) :
                    Get(h, m.p_, <<u, f>>) = xo[2 + nu + ni + u * k + f]
              /\ \A i \in 0..(ni - 1), f \in 0..(k - 1) :
                    Get(h, m.q_, <<i, f>>)
                       = xo[2 + nu + ni + nu * k + i * k + f]
              /\ Get(h, m.bu_, <<nu>>) = Zero
              /\ Get(h, m.bi_, <<ni>>) = Zero
              /\ \A f \in 0..(k - 1) :
                    /\ Get(h, m.p_, <<nu, f>>) = Zero
                    /\ Get(h, m.q_, <<ni, f>>) = Zero]_vars

\* C3's case: a fitted model of two factors whose learned parameters are
\* not zero
C3_Witness ==
    /\ pc = "fitted"
    /\ pmf.k = 2
    /\ pmf.p_.shape = <<3, 2>> /\ pmf.q_.shape = <<3, 2>>
    /\ Get(heap, pmf.p_, <<1, 1>>) # Zero
    /\ Get(heap, pmf.bu_, <<1>>) # Zero

\* C9: a predictor with k < 1, n_users < 1 or n_items < 1 is rejected
\* before any buffer is allocated: fit ends in ValueError with no array
\* made.
C9_InvalidConfigurationRejected ==
    (\/ pmf.k < 1
     \/ InFit /\ (fr.n_objects[1] < 1 \/ fr.n_objects[2] < 1))
    => /\ heap = <<>>
       /\ pc \in {"new", "init", "ValueError"}

\* C10: fit on a training set of no events is rejected as an empty training
\* set before the global bias is computed: no parameter is written and the
\* optimizer is not invoked.
C10_EmptyTrainingSetRejected ==
    (InFit /\ fr.ev = <<>> /\ pc # "init")
    => /\ pc = "EmptyTrainingSet"
       /\ pmf.mu_ # None => ~IsNaN(Get(heap, pmf.mu_, <<0>>))

(***************************************************************************)
(* Properties of prediction                                                *)
(***************************************************************************)
\* the numbers of users and items the fitted model was trained on
NUsers == pmf.fit_results_.n_users.val

NItems == pmf.fit_results_.n_items.val

\* the last call was raw_predict for the pair (u, i) of internal ids
RawCall(u, i) == ret.op = "raw_predict" /\ ret.arg.rows = <<<<u, i>>>>

\* C4: on a fitted model raw_predict for (n_users, i), i in [0, n_items],
\* returns mu_ + bi_[i], and for (u, n_items), u in [0, n_users], returns
\* mu_ + bu_[u]: the factor term is 0 when either index is the fallback
\* index.
C4_FallbackNeutral ==
    pc = "fitted" =>
       LET mu == heap[pmf.mu_.buf][1]
           bu(u) == heap[pmf.bu_.buf][u + 1]
           bi(i) == heap[pmf.bi_.buf][i + 1]
       IN  /\ \A i \in 0..NItems :
                 /\ RawCall(NUsers, i) =>
                       /\ ret.err = "none"
                       /\ ret.val.vals = <<RAdd(mu, bi(i))>>
                 /\ Dot(Row(heap, pmf.p_, NUsers), Row(heap, pmf.q_, i)) = Zero
           /\ \A u \in 0..NUsers :
                 /\ RawCall(u, NItems) =>
                       /\ ret.err = "none"
                       /\ ret.val.vals = <<RAdd(mu, bu(u))>>
                 /\ Dot(Row(heap, pmf.p_, u), Row(heap, pmf.q_, NItems)) = Zero

\* C4's case: raw_predict for the fallback user and an item whose bias is
\* not zero, on a model of two factors
C4_Witness ==
    /\ pc = "fitted" /\ pmf.k = 2
    /\ RawCall(NUsers, 0)
    /\ ret.err = "none"
    /\ ret.val.vals[1] # heap[pmf.mu_.buf][1]
    /\ Row(heap, pmf.q_, 0) # <<Zero, Zero>>

\* C5: on a fitted model a prediction for a pair whose user index or item
\* index is negative or greater than the fallback index fails with an
\* index error and returns no score.
C5_OutOfRangeRejected ==
    (/\ pc = "fitted"
     /\ ret.op = "raw_predict"
     /\ \/ ret.arg.rows[1][1] < 0 \/ ret.arg.rows[1][1] > NUsers
        \/ ret.arg.rows[1][2] < 0 \/ ret.arg.rows[1][2] > NItems)
    => ret.err = "IndexError" /\ ret.val = None

\* the internal id set_events assigned to external id ext in event column e
AssignedId(e, ext) ==
    LET j == CHOOSE j \in 1..Len(x.event.rows) : x.event.rows[j][e] = ext
    IN  data.event.rows[j][e]

\* external id ext occurs in column e of the events handed to set_events
Known(e, ext) == \E j \in 1..Len(x.event.rows) : x.event.rows[j][e] = ext

\* the score of the external pair pr on the fitted model, an unknown id
\* read as the row after the last object's
PairScore(pr) ==
    LET u  == IF Known(1, pr[1]) THEN AssignedId(1, pr[1]) ELSE NUsers
        i  == IF Known(2, pr[2]) THEN AssignedId(2, pr[2]) ELSE NItems
        k  == pmf.k
        mu == heap[pmf.mu_.buf][1]
        bu == heap[pmf.bu_.buf][u + 1]
        bi == heap[pmf.bi_.buf][i + 1]
        pq == [f \in 1..k |-> RMul(heap[pmf.p_.buf][u * k + f],
                                   heap[pmf.q_.buf][i * k + f])]
    IN  RAdd(RAdd(RAdd(mu, bu), bi), RSum(pq))

\* C6: to_iid_event with the default missing_values maps a known external
\* id to the internal id set_events assigned and an unknown external id of
\* column e to n_objects[event_otypes[e]]; predict on an event with an
\* unknown user or item raises nothing and scores the fallback row.
C6_UnknownIdsMapToCount ==
    /\ (pc = "fitted" /\ ret.op = "to_iid_event") =>
          /\ ret.err = "none"
          /\ \A e \in 1..2 :
                ret.val.rows[1][e]
                   = IF Known(e, ret.arg.rows[1][e])
                     THEN AssignedId(e, ret.arg.rows[1][e])
                     ELSE pmf.n_objects[pmf.event_otypes[e] + 1]
    /\ (pc = "fitted" /\ ret.op = "predict" /\ ret.arg.ndim = 1) =>
          /\ ret.err = "none"
          /\ ret.val.vals = <<PairScore(ret.arg.rows[1])>>
          /\ (~Known(1, ret.arg.rows[1][1]) /\ ~Known(2, ret.arg.rows[1][2]))
                => ret.val.vals = <<heap[pmf.mu_.buf][1]>>

\* C6's case: predict for an unknown user and a known item whose bias is
\* not zero
C6_Witness ==
    /\ pc = "fitted"
    /\ ret.op = "predict" /\ ret.arg.ndim = 1
    /\ ~Known(1, ret.arg.rows[1][1]) /\ Known(2, ret.arg.rows[1][2])
    /\ ret.err = "none"
    /\ ret.val.vals[1] # heap[pmf.mu_.buf][1]

\* C8: predict on a list of pairs returns one score per pair in the order
\* of the list, the j-th equal to what predict returns for the j-th pair
\* alone: mu + bu[u] + bi[i] + dot(p[u], q[i]) on the extended tensors.
C8_BatchEqualsPerPair ==
    (pc = "fitted" /\ ret.op = "predict" /\ ret.arg.ndim = 2) =>
       /\ ret.err = "none"
       /\ ret.val.shape = <<Len(ret.arg.rows)>>
       /\ Len(ret.val.vals) = Len(ret.arg.rows)
       /\ \A j \in 1..Len(ret.arg.rows) :
             /\ ret.val.vals[j] = PairScore(ret.arg.rows[j])
             /\ <<ret.val.vals[j]>>
                   = Predict(pmf, heap, Vec(ret.arg.rows[j])).val.vals

\* C8's case: a batch of two pairs with different scores
C8_Witness ==
    /\ pc = "fitted" /\ pmf.k = 2
    /\ ret.op = "predict" /\ ret.arg.ndim = 2
    /\ Len(ret.arg.rows) = 2
    /\ ret.err = "none"
    /\ ret.val.vals[1] # ret.val.vals[2]

(***************************************************************************)
(* Properties of the id conversions                                        *)
(***************************************************************************)
\* C7: after set_events(x), to_eid_event(event) is x and to_iid_event(x)
\* is event, and converting the 2-d array gives what converting each row as
\* a vector gives.
C7_IdRoundTrip ==
    x # None =>
       /\ ToEidEvent(data, data.event) = [err |-> "none", val |-> x.event]
       /\ ToIidEvent(data, x.event) = [err |-> "none", val |-> data.event]
       /\ (ret.op = "to_eid_event" /\ ret.arg = data.event)
             => ret.err = "none" /\ ret.val = x.event
       /\ (ret.op = "to_iid_event" /\ ret.arg = x.event)
             => ret.err = "none" /\ ret.val = data.event
       /\ \A j \in 1..Len(x.event.rows) :
             /\ ToEidEvent(data, Vec(data.event.rows[j]))
                   = [err |-> "none", val |-> Vec(x.event.rows[j])]
             /\ ToIidEvent(data, Vec(x.event.rows[j]))
                   = [err |-> "none", val |-> Vec(data.event.rows[j])]

\* C7's case: to_eid_event of the event array of a container of three
\* events whose first column holds items and second column users
C7_Witness ==
    /\ x # None
    /\ data.event_otypes = <<1, 0>>
    /\ Len(x.event.rows) = 3
    /\ data.n_objects = <<2, 2>>
    /\ ret.op = "to_eid_event" /\ ret.arg = data.event
    /\ ret.val = x.event

(***************************************************************************)
(* Properties of the optimizer driver                                      *)
(***************************************************************************)
\* the states of fit in which an exception has ended the call
Errors == {"TypeError", "ZeroDivisionError", "ValueError"}

\* C11: however the optimizer terminates (warnflag 0, 1 or 2), fit raises
\* nothing after the optimizer has returned, makes the fitted model from the
\* buffer the optimizer returned, and records warnflag, final_loss,
\* func_calls and grad_calls of the optimizer's result in fit_results_.
C11_NonConvergenceRecorded ==
    [][/\ (fr.res # None) => pc' \notin Errors
       /\ (pc = "copied" /\ pc' = "fitted") =>
             /\ fr.res.warnflag \in Warnflags
             /\ pmf'.fit_results_.warnflag = IntVal(fr.res.warnflag)
             /\ pmf'.fit_results_.final_loss = Float(fr.res.fopt)
             /\ pmf'.fit_results_.func_calls = IntVal(fr.res.func_calls)
             /\ pmf'.fit_results_.grad_calls = IntVal(fr.res.grad_calls)
             /\ heap'[pmf'.mu_.buf] = <<fr.res.xopt[1]>>
             /\ \A u \in 1..fr.n_objects[1] :
                   heap'[pmf'.bu_.buf][u] = fr.res.xopt[1 + u]]_vars

\* C11's case: a fitted model after a line-search failure (warnflag 2) that
\* left the optimizer at a point other than the start
C11_Witness ==
    /\ pc = "fitted"
    /\ pmf.fit_results_.warnflag = IntVal(2)
    /\ pmf.fit_results_.final_loss # pmf.fit_results_.initial_loss
    /\ pmf.bu_.shape = <<3>>

\* fit has failed after _init_coef returned: the optimizer's arguments were
\* made, then an exception ended the call
FailedAfterInit == pc \in Errors /\ "maxiter" \in DOMAIN fr.kwargs

\* the initial loss has been recorded in fit_results_
InitialLossRecorded == pmf.fit_results_.initial_loss # Float(PosInf)

\* the optimizer has returned its result to fit
OptimizerReturned == fr.res # None

\* the final diagnostics are in fit_results_, the fitted tensors are arrays
\* of their own and the buffer is gone
PostProcessed ==
    \/ "warnflag" \in DOMAIN pmf.fit_results_
    \/ "final_loss" \in DOMAIN pmf.fit_results_
          /\ pmf.fit_results_.final_loss # Float(PosInf)
    \/ pmf._coef = Deleted

\* what holds of the records of fit in every state: the initial loss is
\* recorded only once the buffer is initialized, the optimizer has run only
\* after the initial loss was recorded, the fallback rows and the final
\* diagnostics exist only after the optimizer has returned
RecordsInOrder ==
    /\ InitialLossRecorded =>
          \/ pc \in {"optimizing", "optimized", "copied", "fitted"}
          \/ FailedAfterInit
    /\ pc \in {"optimizing", "optimized", "copied", "fitted"} => InitialLossRecorded
    /\ OptimizerReturned => InitialLossRecorded /\ pc \in {"optimized", "copied"}
    /\ PostProcessed <=> pc = "fitted"
    /\ pc = "initialized" => pmf._coef.kind = "array"

\* the steps of fit along Uninitialized -> Initialized -> Optimizing ->
\* terminated
ChainSteps ==
    {<<"new", "init">>, <<"init", "initialized">>,
     <<"initialized", "optimizing">>, <<"optimizing", "optimized">>,
     <<"optimized", "copied">>, <<"copied", "fitted">>}

C13_FailedFitLeavesNothing ==
    FailedAfterInit =>
       /\ pmf.mu_ = None /\ pmf.bu_ = None /\ pmf.bi_ = None
       /\ pmf.p_ = None /\ pmf.q_ = None
       /\ pmf._coef \in {None, Deleted}
       /\ pmf._dt \in {None, Deleted}
       /\ ~InitialLossRecorded
       /\ heap = <<>>

\* C18: the tolerance the optimizer is called with is fit's argument tol
\* when one is given, else the tolerance set on the object; the optimizer's
\* default (no gtol handed over) is used only when neither is set.
C18_CallerTolUsed ==
    (pc \in {"optimizing", "optimized", "copied"}) =>
       LET set == IF fr.tol # None THEN fr.tol ELSE pmf.tol
       IN  IF set = None THEN "gtol" \notin DOMAIN fr.kwargs
           ELSE "gtol" \in DOMAIN fr.kwargs /\ fr.kwargs["gtol"] = set

\* a float that is neither nan nor infinite
IsFinite(a) == a[2] # 0

\* C14: when a loss evaluated during fit (the initial loss, the loss at the
\* optimizer's result) is nan or infinite, fit is aborted: it goes on to no
\* later step and returns no fitted model holding non-finite values.
C14_NonFiniteAborts ==
    /\ pc \in {"optimized", "copied", "fitted"} =>
          IsFinite(pmf.fit_results_.initial_loss.val)
    /\ pc \in {"copied", "fitted"} /\ OptimizerReturned => IsFinite(fr.res.fopt)
    /\ pc = "fitted" =>
          /\ IsFinite(pmf.fit_results_.final_loss.val)
          /\ \A a \in {pmf.mu_, pmf.bu_, pmf.bi_, pmf.p_, pmf.q_} :
                \A j \in 1..Len(heap[a.buf]) : IsFinite(heap[a.buf][j])

\* C15: after fit the recorded final_loss is less than or equal to the
\* recorded initial_loss, whatever the optimizer's termination outcome, for
\* every training set with at least one event and k >= 1.
C15_FinalLossNotAboveInitial ==
    pc = "fitted" /\ pmf.k >= 1 =>
        RLe(pmf.fit_results_.final_loss.val, pmf.fit_results_.initial_loss.val)

\* the same for the training sets whose initial loss is finite
FiniteLossNotAboveInitial ==
    pc = "fitted" /\ pmf.k >= 1 /\ IsFinite(pmf.fit_results_.initial_loss.val) =>
        RLe(pmf.fit_results_.final_loss.val, pmf.fit_results_.initial_loss.val)

\* C17: the vector grad_loss returns is the derivative of the value loss
\* returns, element by element: here for the gradient the optimizer
\* evaluated at its start, the buffer the initializer filled.
C17_GradientIsDerivative ==
    pc = "optimized" /\ pmf.k >= 1
        /\ ~IsNaN(pmf.fit_results_.initial_loss.val) =>
        \A n \in 1..Len(fr.grad) :
            fr.grad[n] = LossDerivative(pmf, heap, pmf._coef.buf,
                                        fr.ev, fr.sc, fr.n_objects, n)

\* what grad_loss returns is half the derivative, in every region
GradientIsHalfDerivative ==
    pc = "optimized" /\ ~IsNaN(pmf.fit_results_.initial_loss.val) =>
        \A n \in 1..Len(fr.grad) :
            RAdd(fr.grad[n], fr.grad[n])
                = LossDerivative(pmf, heap, pmf._coef.buf,
                                 fr.ev, fr.sc, fr.n_objects, n)

(***************************************************************************)
(* Properties of the fitted model under prediction                         *)
(***************************************************************************)
\* the object self with other diagnostics in fit_results_: its own, and
\* those of a fit that ended on a failed line search with another loss
WithDiagnostics(self) ==
    {self,
     [self EXCEPT !.fit_results_.warnflag = IntVal(2),
                  !.fit_results_.final_loss = Float(NaN),
                  !.fit_results_.initial_loss = Float(Zero)]}

\* C19: a call of predict or raw_predict on a fitted model, failing or not,
\* leaves the object (mu_, bu_, bi_, p_, q_, fit_results_) and the arrays'
\* contents as they were, and what it returns is determined by its argument
\* and the five tensors: the diagnostics in fit_results_ have no influence.
C19_PredictionLeavesModel ==
    [][(pc = "fitted" /\ ret' # ret) =>
          /\ pmf' = pmf /\ heap' = heap /\ pc' = pc
          /\ ret'.op = "predict" =>
                \A m \in WithDiagnostics(pmf') :
                   LET r == Predict(m, heap', ret'.arg)
                   IN  ret'.err = r.err /\ ret'.val = r.val
          /\ ret'.op = "raw_predict" =>
                \A m \in WithDiagnostics(pmf') :
                   LET r == RawPredict(m, heap', ret'.arg)
                   IN  ret'.err = r.err /\ ret'.val = r.val]_vars

\* C19's case: predict has returned the score of a known user and a known
\* item on a model with two factors
C19_Witness ==
    /\ pc = "fitted" /\ pmf.k = 2
    /\ ret.op = "predict" /\ ret.arg.ndim = 1
    /\ Known(1, ret.arg.rows[1][1]) /\ Known(2, ret.arg.rows[1][2])
    /\ ret.err = "none"
    /\ pmf.fit_results_.warnflag = IntVal(0)
    /\ ret.val.vals[1] # heap[pmf.mu_.buf][1]

(***************************************************************************)
(* Properties of two recommenders                                          *)
(***************************************************************************)
\* the stages of fit at which self._coef holds what _init_coef left
Started == {"initialized", "optimizing", "optimized"}

\* the generator fit has to use: that of its argument random_state, and that
\* of the object's random_state when the argument is None
RngOf(self, random_state) ==
    IF random_state # None
    THEN [kind |-> "RandomState", seed |-> random_state.val]
    ELSE IF self.random_state # None
    THEN [kind |-> "RandomState", seed |-> self.random_state.val]
    ELSE [kind |-> "global"]

\* C16: two fits with the same integer seed on the same events and scores
\* have identical initial buffers (mu, bu, bi, the draws of p and then q) and
\* so the same initial loss; and the generator of a fit is seeded by fit's
\* random_state, by the object's only when fit's is None.
C16_InitializerDeterministic ==
    /\ pc \in Started \cup {"init", "copied"} =>
          pmf._rng = RngOf(pmf, fr.random_state)
    /\ (/\ other # NoObject
        /\ pc \in Started /\ other.pc \in Started
        /\ pmf._rng.kind = "RandomState"
        /\ other.pmf._rng = pmf._rng
        /\ x = other.x) =>
          /\ heap[pmf._coef.buf] = heap[other.pmf._coef.buf]
          /\ (pc # "initialized" /\ other.pc # "initialized") =>
                pmf.fit_results_.initial_loss
                    = other.pmf.fit_results_.initial_loss

\* C16's case: both objects are fitted with seed 0 on the same training set,
\* one of them constructed with random_state 1, and both have their initial
\* loss; the factors drawn are not zero
C16_Witness ==
    /\ other # NoObject
    /\ pc = "optimizing" /\ other.pc = "optimizing"
    /\ pmf.random_state = IntVal(1) /\ other.pmf.random_state = None
    /\ fr.random_state = IntVal(0) /\ other.fr.random_state = IntVal(0)
    /\ x = other.x
    /\ pmf._coef.buf # other.pmf._coef.buf
    /\ Get(heap, pmf.p_, <<0, 0>>) # Zero

\* the arrays of object self alone in memory
OwnHeap(self, h) == [b \in Bufs(self) \cap DOMAIN h |-> h[b]]

\* the contents of the five tensors of object self
Tensors(self, h) ==
    [name \in {"mu", "bu", "bi", "p", "q"} |->
        LET a == CASE name = "mu" -> self.mu_ [] name = "bu" -> self.bu_
                   [] name = "bi" -> self.bi_ [] name = "p" -> self.p_
                   [] OTHER -> self.q_
        IN  [shape |-> a.shape, vals |-> Elems(h, a)]]

\* C20: when two PMF objects with their own data and integer seeds run fit
\* with their steps interleaved, a step of one leaves the other object, its
\* diagnostics and the contents of its arrays as they were, the two share no
\* buffer, and each step of _init_coef and of fit's completion gives the
\* object what it gives an object that is alone in the process.
C20_FitsDoNotInterfere ==
    [][(other # NoObject /\ other' = other) =>
          /\ \A b \in Bufs(other.pmf) : b \in DOMAIN heap' /\ heap'[b] = heap[b]
          /\ Bufs(pmf') \cap Bufs(other.pmf) = {}
          /\ (pc = "init" /\ pc' = "initialized"
                /\ pmf._rng.kind = "RandomState") =>
                LET r == InitCoef(pmf, <<>>, fr.ev, fr.sc, fr.n_objects,
                                  pmf._rng.seed)
                IN  /\ heap'[pmf'._coef.buf] = r.heap[r.self._coef.buf]
                    /\ pmf'._reg = r.self._reg
          /\ (pc = "copied" /\ pc' = "fitted") =>
                LET r == FinishFit(pmf, OwnHeap(pmf, heap), fr.res,
                                   fr.n_objects)
                IN  /\ Tensors(pmf', heap') = Tensors(r.self, r.heap)
                    /\ pmf'.fit_results_ = r.self.fit_results_]_vars

\* C20's case: both objects are inside fit at the same time, on different
\* training sets and with generators of different integer seeds, the
\* optimizer having returned to one of them
C20_Witness ==
    /\ other # NoObject
    /\ pc = "optimizing" /\ other.pc = "optimized"
    /\ x # other.x
    /\ pmf._rng.kind = "RandomState" /\ other.pmf._rng.kind = "RandomState"
    /\ pmf._rng.seed # other.pmf._rng.seed

(***************************************************************************)
(* Properties of filter_event                                              *)
(***************************************************************************)
\* the position in cond of its j-th True entry
NthTrue(cond, j) ==
    CHOOSE n \in 1..Len(cond) :
        cond[n] /\ Cardinality({m \in 1..n : cond[m]}) = j

\* new holds exactly the elements of old whose cond entry is True, in their
\* original order
IsFiltered(new, old, cond) ==
    /\ Len(new) = Cardinality({m \in 1..Len(cond) : cond[m]})
    /\ \A j \in 1..Len(new) : new[j] = old[NthTrue(cond, j)]

\* C21: filter_event(cond) replaces event by the rows whose cond entry is
\* True in their original order and filters event_feature alike, so that
\* row j of event_feature still belongs to row j of event; eid, iid and
\* n_objects are unchanged; on a container without events it does nothing.
C21_FilterKeepsSelectedRows ==
    [][(ret.op = "none" /\ ret'.op = "filter_event") =>
          LET cond == ret'.arg.vals
          IN  /\ data'.eid = data.eid /\ data'.iid = data.iid
              /\ data'.n_objects = data.n_objects
              /\ data.event = None => data' = data
              /\ data.event # None =>
                    /\ IsFiltered(data'.event.rows, data.event.rows, cond)
                    /\ data'.event.shape = <<Len(data'.event.rows), data.s_event>>
                    /\ data.event_feature = None => data'.event_feature = None
                    /\ data.event_feature # None =>
                          IsFiltered(data'.event_feature.rows,
                                     data.event_feature.rows, cond)]_vars

\* C21's case: filter_event has dropped the middle one of three events with
\* features, and the features left are those of the first and the third
C21_Witness ==
    /\ ret.op = "filter_event" /\ ret.arg.vals = <<TRUE, FALSE, TRUE>>
    /\ data.event_feature = Features(<<Timestamp(1), Timestamp(3)>>)
    /\ Len(data.event.rows) = 2
    /\ data.event.rows[1] # data.event.rows[2]

\* C29: whatever set_events and filter_event calls were made, n_events is
\* the number of rows of event, and of event_feature when there is one.
C29_NEventsIsRowCount ==
    data.event # None =>
        /\ data.n_events = Len(data.event.rows)
        /\ data.event_feature # None =>
              data.n_events = Len(data.event_feature.rows)

EventArrayCounts ==
    (ret.op = "_get_event_array" /\ ret.err = "none") =>
        \A pos \in DOMAIN ret.val.event.vals :
            ret.val.event.vals[pos] =
                Cardinality({j \in 1..Len(data.event.rows) :
                                data.event.rows[j] = pos})

(***************************************************************************)
(* Properties of the initializer, the loss and the gradient                *)
(***************************************************************************)
\* the events (positions in ev) whose column c holds the internal id i
EventSet(ev, c, i) == {j \in 1..Len(ev) : ev[j][c] = i}

\* the mean over the events J of the residuals res[j]; 0 for no events
MeanOver(J, res) ==
    IF J = {} THEN Zero
    ELSE NpDivInt(RSum([j \in 1..Len(res) |-> IF j \in J THEN res[j] ELSE Zero]),
                  Cardinality(J))

\* the buffer holds the initializer's values: fit has called _init_coef and
\* not yet copied the optimizer's result, or _init_coef was called directly
HoldsInitialValues == pc \in Started \cup {"coef"}

\* C23: after _init_coef mu is the mean of all scores, bu[u] the mean over
\* u's events of score - mu, bi[i] the mean over i's events of
\* score - mu - bu[user of the event]; a user or item without events has
\* bias 0; an event that occurs twice counts twice.
C23_InitialBiases ==
    HoldsInitialValues =>
        LET v  == Params(pmf, heap, pmf._coef.buf)
            mu == Get(heap, v["mu"], <<0>>)
            ru == [j \in 1..Len(fr.ev) |-> RSub(fr.sc[j], mu)]
            ri == [j \in 1..Len(fr.ev) |->
                     RSub(RSub(fr.sc[j], mu),
                          Get(heap, v["bu"], <<fr.ev[j][1]>>))]
        IN  /\ mu = NpDivInt(RSum(fr.sc), Len(fr.sc))
            /\ \A u \in 0..(fr.n_objects[1] - 1) :
                  Get(heap, v["bu"], <<u>>) = MeanOver(EventSet(fr.ev, 1, u), ru)
            /\ \A i \in 0..(fr.n_objects[2] - 1) :
                  Get(heap, v["bi"], <<i>>) = MeanOver(EventSet(fr.ev, 2, i), ri)

\* C23's case: _init_coef has returned for events with a repeated pair, a
\* user and an item without events, and biases that are not zero
C23_Witness ==
    /\ pc = "coef" /\ pmf.k = 2
    /\ fr.ev[1] = fr.ev[2]
    /\ EventSet(fr.ev, 1, 1) = {} /\ EventSet(fr.ev, 2, 2) = {}
    /\ Get(heap, pmf.bu_, <<1>>) = Zero /\ Get(heap, pmf.bi_, <<2>>) = Zero
    /\ Get(heap, pmf.bu_, <<0>>) = Rat(1, 2)
    /\ Get(heap, pmf.bi_, <<0>>) = Rat(-1, 2)

\* grad_loss has been evaluated at the buffer self._coef holds
GradientEvaluated == pc \in {"optimized", "grad"}

\* the element of the gradient that belongs to element idx of the array
\* name of the parameters
GradOf(name, idx) ==
    fr.grad[FlatIndex(Params(pmf, heap, pmf._coef.buf)[name], idx) + 1]

\* the sum over the events J of the weights w[j]
SumOver(J, w) == RSum([j \in 1..Len(w) |-> IF j \in J THEN w[j] ELSE Zero])

\* C24: the gradient entries of bu[u] and p[u, :] (bi[i] and q[i, :]) are
\* the sums of the contributions of every event of u (of i), an event that
\* occurs twice contributing twice, divided by n_events, plus the
\* regularization term; for a user or item without events the
\* regularization term is all there is.
C24_GradientScatterAdd ==
    GradientEvaluated =>
        LET v   == Params(pmf, heap, pmf._coef.buf)
            n   == Len(fr.ev)
            reg == pmf._reg.val
            neg_res == NegRes(pmf, heap, pmf._coef.buf, fr.ev, fr.sc)
            wq(f) == [j \in 1..n |->
                        RMul(neg_res[j], Get(heap, v["q"], <<fr.ev[j][2], f>>))]
            wp(f) == [j \in 1..n |->
                        RMul(neg_res[j], Get(heap, v["p"], <<fr.ev[j][1], f>>))]
            entry(J, w, xv) ==
                IF J = {} THEN RMul(reg, xv)
                ELSE RAdd(NpDivInt(SumOver(J, w), n), RMul(reg, xv))
        IN  /\ \A u \in 0..(fr.n_objects[1] - 1) :
                  /\ GradOf("bu", <<u>>)
                        = entry(EventSet(fr.ev, 1, u), neg_res,
                                Get(heap, v["bu"], <<u>>))
                  /\ \A f \in 0..(pmf.k - 1) :
                        GradOf("p", <<u, f>>)
                           = entry(EventSet(fr.ev, 1, u), wq(f),
                                   Get(heap, v["p"], <<u, f>>))
            /\ \A i \in 0..(fr.n_objects[2] - 1) :
                  /\ GradOf("bi", <<i>>)
                        = entry(EventSet(fr.ev, 2, i), neg_res,
                                Get(heap, v["bi"], <<i>>))
                  /\ \A f \in 0..(pmf.k - 1) :
                        GradOf("q", <<i, f>>)
                           = entry(EventSet(fr.ev, 2, i), wp(f),
                                   Get(heap, v["q"], <<i, f>>))

\* C24's case: grad_loss was evaluated for events with a repeated pair whose
\* two residuals differ, and the factor row of a user without events has a
\* gradient, its regularization term, that is not zero
C24_Witness ==
    /\ pc = "grad" /\ pmf.k = 2
    /\ fr.ev[1] = fr.ev[2]
    /\ LET neg_res == NegRes(pmf, heap, pmf._coef.buf, fr.ev, fr.sc)
       IN  neg_res[1] # neg_res[2] /\ neg_res[2] # Zero
    /\ EventSet(fr.ev, 1, 1) = {}
    /\ GradOf("p", <<1, 0>>) # Zero
    /\ GradOf("p", <<1, 0>>) = RMul(pmf._reg.val, Get(heap, pmf.p_, <<1, 0>>))

\* the object self with no regularization
Unregularized(self) == [self EXCEPT !._reg = Float(Zero)]

\* C25: the penalty of loss is reg times the sum of the squares of bu, bi, p
\* and q, the global bias left out; the mu entry of the gradient has no
\* regularization term and every other entry has reg times the parameter.
C25_GlobalBiasNotRegularized ==
    GradientEvaluated =>
        LET b    == pmf._coef.buf
            free == Unregularized(pmf)
            reg  == pmf._reg.val
            data_grad == GradLoss(free, heap, b, fr.ev, fr.sc, fr.n_objects)
        IN  /\ RSub(pmf.fit_results_.initial_loss.val,
                    Loss(free, heap, b, fr.ev, fr.sc, fr.n_objects))
                  = RMul(reg, SumSq(Tail(heap[b])))
            /\ fr.grad[1] = data_grad[1]
            /\ \A n \in 2..Len(fr.grad) :
                  RSub(fr.grad[n], data_grad[n]) = RMul(reg, heap[b][n])

\* C25's case: loss and grad_loss were evaluated at a buffer whose global
\* bias and whose other parameters are not zero, with two factors
C25_Witness ==
    /\ pc = "optimized" /\ pmf.k = 2
    /\ heap[pmf._coef.buf][1] # Zero
    /\ fr.grad[1] # Zero
    /\ \E n \in 2..Len(fr.grad) : heap[pmf._coef.buf][n] # Zero
    /\ ~IsNaN(pmf.fit_results_.initial_loss.val)

(***************************************************************************)
(* Properties of the optimizer's arguments and of the regularization scale *)
(***************************************************************************)
\* fit has made the optimizer's keyword arguments
ArgsMade == "maxiter" \in DOMAIN fr.kwargs

\* the iteration budget of the running fit: fit's maxiter, the object's when
\* fit was given none
Budget == IF fr.maxiter # None THEN fr.maxiter.val ELSE pmf.maxiter.val

\* the number of parameters of the running fit
NParams ==
    1 + fr.n_objects[1] + fr.n_objects[2]
      + pmf.k * fr.n_objects[1] + pmf.k * fr.n_objects[2]

\* C26 (amended): the iteration limit handed to the optimizer is the budget
\* times the number of parameters, which is the length of the buffer; it is
\* a positive multiple of that length when the budget is at least 1.
C26_IterationLimit ==
    ArgsMade =>
        /\ fr.kwargs["maxiter"] = Budget * NParams
        /\ pmf._coef.kind = "array" => NParams = pmf._coef.shape[1]
        /\ Budget >= 1 =>
              fr.kwargs["maxiter"] > 0 /\ fr.kwargs["maxiter"] % NParams = 0

\* C26's case: fit was called with maxiter = 10 on an object whose own
\* maxiter is 200, with two factors, and is about to call the optimizer
C26_Witness ==
    /\ pc = "optimizing" /\ pmf.k = 2
    /\ fr.maxiter = IntVal(10) /\ pmf.maxiter = IntVal(200)
    /\ fr.kwargs["maxiter"] = 10 * Len(heap[pmf._coef.buf])

\* C26 (as stated): the iteration limit is the budget times the number of
\* parameters and always a positive multiple of the buffer length.
C26_LimitAlwaysPositive ==
    ArgsMade =>
        /\ fr.kwargs["maxiter"] = Budget * NParams
        /\ fr.kwargs["maxiter"] > 0
        /\ fr.kwargs["maxiter"] % NParams = 0

\* _init_coef has returned and fit has not yet deleted its temporaries
HasScale == pc \in Started \cup {"copied", "coef", "grad"}

\* C27: the regularization scale is C / (1 + (k+1) * (n_users + n_items)),
\* that is C divided by the length of the parameter buffer, from the return
\* of _init_coef to the end of fit: no step of fit changes it.
C27_RegularizationScale ==
    [][/\ HasScale' =>
             /\ pmf'._reg.val
                   = RMul(pmf'.C,
                          Rat(1, 1 + (pmf'.k + 1)
                                       * (fr'.n_objects[1] + fr'.n_objects[2])))
             /\ RMul(pmf'._reg.val, R(Len(heap'[pmf'._coef.buf]))) = pmf'.C
       /\ (HasScale /\ HasScale') => pmf'._reg = pmf._reg]_vars

\* C27's case: the optimizer's result has been copied into a buffer of 13
\* parameters (two users, two items, k = 2), the scale being C / 13
C27_Witness ==
    /\ pc = "copied" /\ pmf.k = 2
    /\ fr.n_objects = <<2, 2>>
    /\ Len(heap[pmf._coef.buf]) = 13
    /\ pmf._reg = Float(Rat(1, 130))

\* fit is running on an object that an earlier call of fit returned from:
\* fit_results_ still holds the entries of that call
FittedBefore == pc \notin {"new", "fitted"} /\ "warnflag" \in DOMAIN pmf.fit_results_

\* what _init_coef leaves of a newly constructed object with the constructor
\* arguments of self, fit being called with data d and random_state, when
\* its generator is seeded with seed
FreshStart(self, d, random_state, seed) ==
    LET s0 == NewPMF(self.C, self.k, self.tol, self.maxiter, self.random_state)
        s1 == ScorePredictorFit(s0, d, random_state)
    IN  InitCoef(s1, <<>>, GetEvent(s1).ev, s1.score.vals,
                 GetEvent(s1).n_objects, seed)

\* what fit leaves of that object when the optimizer returns xopt and
\* warnflag
FreshFit(self, d, random_state, seed, xopt, warnflag) ==
    LET r  == FreshStart(self, d, random_state, seed)
        ev == GetEvent(r.self).ev
        sc == r.self.score.vals
        n_objects == GetEvent(r.self).n_objects
        s2 == InitialLoss(r.self, r.heap, ev, sc, n_objects)
        tmp == NewId(r.heap)
        res == [xopt |-> xopt,
                fopt |-> Loss(s2, Alloc(r.heap, tmp, xopt), tmp, ev, sc,
                              n_objects),
                func_calls |-> 3, grad_calls |-> 2, warnflag |-> warnflag]
    IN  FinishFit(s2, GetParameters(s2, r.heap, xopt), res, n_objects)

\* object self without its five tensors
Untensored(self) ==
    [self EXCEPT !.mu_ = None, !.bu_ = None, !.bi_ = None, !.p_ = None,
                 !.q_ = None]

\* C28: when fit returns, _coef, _reg, _dt, _rng and the training data are
\* gone from the object, the buffer is freed, and the five fitted tensors are
\* arrays of their own, none sharing memory with the buffer or with another.
\* A fit of an object fitted before takes a generator and a buffer of its
\* own, starts from the values a new object starts from, and leaves the
\* object and the tensors a new object would have for the same data, seed
\* and optimizer result.
C28_FitLeavesNoTemporaries ==
    [][/\ (pc = "copied" /\ pc' = "fitted") =>
             /\ pmf'._coef = Deleted /\ pmf'._reg = Deleted
             /\ pmf'._dt = Deleted /\ pmf'._rng = Deleted
             /\ pmf'.event = None /\ pmf'.score = None
             /\ pmf._coef.buf \notin DOMAIN heap'
             /\ Cardinality(Bufs(pmf')) = 5
             /\ Bufs(pmf') = DOMAIN heap'
             /\ Tensors(pmf', heap').bu.vals
                   = AppendZeroRow(heap, Params(pmf, heap, pmf._coef.buf).bu)
             /\ FittedBefore /\ pmf._rng.kind = "RandomState" =>
                   LET f == FreshFit(pmf, data, fr.random_state, pmf._rng.seed,
                                     fr.res.xopt, fr.res.warnflag)
                   IN  /\ Untensored(pmf') = Untensored(f.self)
                       /\ Tensors(pmf', heap') = Tensors(f.self, f.heap)
       /\ (pc = "fitted" /\ pc' = "init") =>
             pmf'._rng = RngOf(pmf, fr'.random_state)
       /\ (FittedBefore /\ pc = "init" /\ pc' = "initialized") =>
             /\ pmf'._coef.buf \notin Bufs(pmf)
             /\ pmf._rng.kind = "RandomState" =>
                   LET f == FreshStart(pmf, data, fr.random_state,
                                       pmf._rng.seed)
                   IN  /\ heap'[pmf'._coef.buf] = f.heap[f.self._coef.buf]
                       /\ pmf'._reg = f.self._reg]_vars

\* C28's case: a second fit has returned.  The first fit's tensors took the
\* five buffers after the first buffer; the second fit's buffer took the
\* freed place of the first, and its tensors, allocated while those of the
\* first fit were still there, the next five.  The second call had a seed
\* and three events.
C28_Witness ==
    /\ pc = "fitted"
    /\ DOMAIN heap = 7..11
    /\ pmf._coef = Deleted /\ pmf.event = None
    /\ pmf.random_state # None
    /\ pmf.fit_results_.n_events = IntVal(3)
    /\ pmf.k = 2

\* the rows of the loaded data set, in internal ids
LoadedRows == SetEvents(NewEventData(<<0, 1>>), x.event, None).event.rows

\* C30: in cv_test the recommender of every fold is trained on a data object
\* that holds exactly the loaded events outside the fold's test group, the
\* loaded data set itself is left as it was loaded, and the run gets as far
\* as giving every event a score: no fold raises.
C30_FoldsTrainOnComplement ==
    /\ pc = "cv_train" =>
          /\ fr.training_data # None
          /\ fr.training_data.event.rows
                = TakeIndex(LoadedRows, CvSplit(fr.groups, fr.fold).train_i)
    /\ pc \in {"cv_split", "cv_train"} =>
          /\ data.event.rows = LoadedRows
          /\ Len(data.score.vals) = Len(data.event.rows)
    /\ pc # "AttributeError"

=============================================================================
